---------------------------- MODULE Spec2Model ----------------------------
(***************************************************************************)
(* Model of the resumable ingestion pipeline of scrap_ebook_online:        *)
(* CheckpointManager / ProgressTracker, CacheManager, ManifestManager,     *)
(* StorageCoordinator.saveBook, BookScraper (getBook, getAllChapters,      *)
(* getChapterContent, scrapeAllChapters) and scrapeBook.                   *)
(***************************************************************************)
EXTENDS Integers, Sequences, FiniteSets, TLC

(***************************************************************************)
(* Bounds of the model.                                                    *)
(***************************************************************************)
\* largest number of chapters of a document
MaxChapters == 5
\* largest number of chapters of a document whose site changes between jobs
MaxChangedChapters == 3
\* chapter indices handed to the ProgressTracker calls of SpecCheckpoint
MaxIndex == 2

\* the largest chapter index of the calls made on the cache alone
MaxCacheIndex == 1

\* the largest number of chapters of a document whose cache files are damaged
MaxCorruptChapters == 2

\* the largest number of chapters of a document of a batch in which writes
\* fail and the process crashes
MaxFaultChapters == 2

\* the anchors of a table of contents are at most MaxTocLinks
MaxTocLinks == 3

\* ch00 .. ch(MaxServed-1) answer the probes
MaxServed == 2

\* the characters of a book title
MaxTitleLength == 2

\* the calls of a sequence of ManifestManager calls
MaxManifestCalls == 4

\* the largest maxAttempts handed to withRetry called alone
MaxAttempts == 3

\* the largest backoffBase and attempt number handed to getBackoffDelay
MaxBackoffBase == 2

MaxBackoffAttempt == 8

\* Math.random() takes the values k / RandomSteps of 0..999 thousandths
RandomSteps == 4

\* the largest numbers of tokens, and of tokens of one character, of a content
MaxTokens == 101

MaxSingleChars == 2

(***************************************************************************)
(* Optional values: <<>> is null, <<x>> is a present value x.              *)
(***************************************************************************)
Null == <<>>

Some(x) == <<x>>

\* the content of a file that does not parse (JSON.parse throws)
Truncated == [truncated |-> TRUE]

Range(s) == {s[k] : k \in 1..Len(s)}

(***************************************************************************)
(* Strings are sequences of one-character strings.                         *)
(***************************************************************************)
Str_library == <<"l", "i", "b", "r", "a", "r", "y">>

Str_view == <<"v", "i", "e", "w">>

Str_unknown == <<"u", "n", "k", "n", "o", "w", "n">>

Str_untitled == <<"u", "n", "t", "i", "t", "l", "e", "d">>

Digits == {"0", "1", "2", "3", "4", "5", "6", "7", "8", "9"}

\* the characters of /[/\\:*?"<>|]/
InvalidFilenameChars == {"/", "\\", ":", "*", "?", "\"", "<", ">", "|"}

\* s.replace(/c{2,}/g, c): every run of c becomes a single c
RECURSIVE CollapseRuns(_, _)
CollapseRuns(s, c) ==
  IF Len(s) < 2 THEN s
  ELSE IF s[1] = c /\ s[2] = c THEN CollapseRuns(Tail(s), c)
  ELSE <<s[1]>> \o CollapseRuns(Tail(s), c)

\* s.replace(/^[_-]+/, '')
RECURSIVE TrimLeading(_)
TrimLeading(s) ==
  IF s # <<>> /\ s[1] \in {"_", "-"} THEN TrimLeading(Tail(s)) ELSE s

\* s.replace(/[_-]+$/, '')
RECURSIVE TrimTrailing(_)
TrimTrailing(s) ==
  IF s # <<>> /\ s[Len(s)] \in {"_", "-"}
  THEN TrimTrailing(SubSeq(s, 1, Len(s) - 1))
  ELSE s

\* sanitizeFilename: maxLength
MaxFilenameLength == 200

sanitizeFilename(input) ==
  LET replaced  == [k \in 1..Len(input) |->
                      IF input[k] \in InvalidFilenameChars THEN "_" ELSE input[k]]
      collapsed == CollapseRuns(CollapseRuns(replaced, "_"), "-")
      trimmed   == TrimTrailing(TrimLeading(collapsed))
      truncated == IF Len(trimmed) > MaxFilenameLength
                   THEN TrimTrailing(SubSeq(trimmed, 1, MaxFilenameLength))
                   ELSE trimmed
  IN  IF truncated = <<>> THEN Str_untitled ELSE truncated

\* /^\d+$/.test(s)
IsNumeric(s) == s # <<>> /\ \A k \in 1..Len(s) : s[k] \in Digits

\* parts.join(sep)
RECURSIVE Join(_, _)
Join(parts, sep) ==
  IF parts = <<>> THEN <<>>
  ELSE IF Len(parts) = 1 THEN parts[1]
  ELSE parts[1] \o <<sep>> \o Join(Tail(parts), sep)

(***************************************************************************)
(* A book URL https://learning.oreilly.com/<segs joined by "/">, with or   *)
(* without a trailing slash.  segs are the non-empty path segments.        *)
(***************************************************************************)
Url(segs, slash) == [segs |-> segs, slash |-> slash]

\* url.split('/') : "https:", "", host, the segments, and "" after a
\* trailing slash
Str_host == <<"h">>

UrlSplit(url) ==
  <<<<"h", "t", "t", "p", "s", ":">>, <<>>, Str_host>> \o url.segs
    \o (IF url.slash THEN <<<<>>>> ELSE <<>>)

\* new URL(url).pathname.split('/').filter(part => part.length > 0)
PathParts(url) == SelectSeq(url.segs, LAMBDA p : p # <<>>)

sanitizeBookId(url) ==
  LET pathParts == PathParts(url)
  IN  IF Len(pathParts) >= 4 /\ pathParts[1] = Str_library /\ pathParts[2] = Str_view
      THEN IF IsNumeric(pathParts[4]) THEN pathParts[4]
           ELSE sanitizeFilename(pathParts[3])
      ELSE sanitizeFilename(Join(pathParts, "_"))

\* BookScraper.getBook: urlParts[urlParts.length - 2] || 'unknown'
BookIdFromUrl(url) ==
  LET urlParts == UrlSplit(url)
      id       == urlParts[Len(urlParts) - 1]
  IN  IF id = <<>> THEN Str_unknown ELSE id

(***************************************************************************)
(* CheckpointManager.  A Checkpoint is                                     *)
(*   [totalChapters, completedChapters, failedChapters, currentChapter,    *)
(*    status]                                                              *)
(* with the two arrays as sequences and currentChapter = -1 for null.  The *)
(* progress directory is a function from book ids to an optional           *)
(* checkpoint (the file <bookId>.checkpoint.json).                         *)
(***************************************************************************)
NoChapter == -1

\* array.includes(x)
Includes(array, x) == x \in Range(array)

\* array.push(x); array.sort((a, b) => a - b)
PushSorted(array, x) == SortSeq(Append(array, x), LAMBDA a, b : a < b)

\* saveCheckpoint: write the temporary file, rename it over the checkpoint
saveCheckpoint(dir, bookId, checkpoint) == [dir EXCEPT ![bookId] = Some(checkpoint)]

\* loadCheckpoint: the parsed file, or null when it cannot be read
\* readFile or JSON.parse throws: catch { return null }
loadCheckpoint(dir, bookId) ==
  IF dir[bookId] = Null THEN Null
  ELSE IF dir[bookId][1] = Truncated THEN Null
  ELSE dir[bookId]

\* deleteCheckpoint: unlink, ENOENT ignored
deleteCheckpoint(dir, bookId) == [dir EXCEPT ![bookId] = Null]

\* the checkpoint object createCheckpoint builds and saves
NewCheckpoint(totalChapters) ==
  [totalChapters     |-> totalChapters,
   completedChapters |-> <<>>,
   failedChapters    |-> <<>>,
   currentChapter    |-> NoChapter,
   status            |-> "in_progress"]

createCheckpoint(dir, bookId, totalChapters) ==
  saveCheckpoint(dir, bookId, NewCheckpoint(totalChapters))

markChapterComplete(dir, bookId, chapterIndex) ==
  LET loaded == loadCheckpoint(dir, bookId)
  IN  IF loaded = Null THEN dir
      ELSE LET checkpoint == loaded[1]
               completed  == IF Includes(checkpoint.completedChapters, chapterIndex)
                             THEN checkpoint.completedChapters
                             ELSE PushSorted(checkpoint.completedChapters, chapterIndex)
               failed     == SelectSeq(checkpoint.failedChapters,
                                       LAMBDA idx : idx # chapterIndex)
           IN  saveCheckpoint(dir, bookId,
                 [checkpoint EXCEPT !.completedChapters = completed,
                                    !.failedChapters = failed])

markChapterFailed(dir, bookId, chapterIndex) ==
  LET loaded == loadCheckpoint(dir, bookId)
  IN  IF loaded = Null THEN dir
      ELSE LET checkpoint == loaded[1]
               failed     == IF Includes(checkpoint.failedChapters, chapterIndex)
                             THEN checkpoint.failedChapters
                             ELSE PushSorted(checkpoint.failedChapters, chapterIndex)
           IN  saveCheckpoint(dir, bookId, [checkpoint EXCEPT !.failedChapters = failed])

(***************************************************************************)
(* ProgressTracker.  The object is [bookId, totalChapters, checkpoint],    *)
(* checkpoint being its private field (null before initialize).  The       *)
(* operations that write return the new tracker and the new directory.     *)
(***************************************************************************)
NewTracker(bookId, totalChapters) ==
  [bookId |-> bookId, totalChapters |-> totalChapters, checkpoint |-> Null]

initialize(tr, dir) ==
  LET loaded == loadCheckpoint(dir, tr.bookId)
  IN  IF loaded # Null
      THEN [tracker |-> [tr EXCEPT !.checkpoint = loaded], dir |-> dir]
      ELSE [tracker |-> [tr EXCEPT !.checkpoint = Some(NewCheckpoint(tr.totalChapters))],
            dir     |-> createCheckpoint(dir, tr.bookId, tr.totalChapters)]

\* the indices 0..totalChapters-1 not in completedChapters, increasing
\* variant of getRemainingChapters that ignores the completed set
getAllChapterIndices(tr) ==
  [k \in 1..tr.totalChapters |-> k - 1]

\* variant of getRemainingChapters that lists the indices from the last one
getRemainingChaptersDescending(tr) ==
  LET all == [k \in 1..tr.totalChapters |-> tr.totalChapters - k]
  IN  IF tr.checkpoint = Null THEN all
      ELSE SelectSeq(all, LAMBDA i : ~Includes(tr.checkpoint[1].completedChapters, i))

getRemainingChapters(tr) ==
  LET all == [k \in 1..tr.totalChapters |-> k - 1]
  IN  IF tr.checkpoint = Null THEN all
      ELSE SelectSeq(all, LAMBDA i : ~Includes(tr.checkpoint[1].completedChapters, i))

\* variant of startChapter that sets currentChapter without saving
startChapterUnsaved(tr, dir, chapterIndex) ==
  LET checkpoint == [tr.checkpoint[1] EXCEPT !.currentChapter = chapterIndex]
  IN  [tracker |-> [tr EXCEPT !.checkpoint = Some(checkpoint)], dir |-> dir]

startChapter(tr, dir, chapterIndex) ==
  LET checkpoint == [tr.checkpoint[1] EXCEPT !.currentChapter = chapterIndex]
  IN  [tracker |-> [tr EXCEPT !.checkpoint = Some(checkpoint)],
       dir     |-> saveCheckpoint(dir, tr.bookId, checkpoint)]

completeChapter(tr, dir, chapterIndex) ==
  LET written == markChapterComplete(dir, tr.bookId, chapterIndex)
  IN  [tracker |-> [tr EXCEPT !.checkpoint = loadCheckpoint(written, tr.bookId)],
       dir     |-> written]

failChapter(tr, dir, chapterIndex) ==
  LET written == markChapterFailed(dir, tr.bookId, chapterIndex)
  IN  [tracker |-> [tr EXCEPT !.checkpoint = loadCheckpoint(written, tr.bookId)],
       dir     |-> written]

isComplete(tr) ==
  IF tr.checkpoint = Null THEN FALSE
  ELSE Len(tr.checkpoint[1].completedChapters) = tr.totalChapters

\* Math.round((completedChapters.length / totalChapters) * 100)
getProgress(tr) ==
  IF tr.checkpoint = Null \/ tr.totalChapters = 0 THEN 0
  ELSE (200 * Len(tr.checkpoint[1].completedChapters) + tr.totalChapters)
         \div (2 * tr.totalChapters)

getSummary(tr) ==
  IF tr.checkpoint = Null
  THEN [total |-> tr.totalChapters, completed |-> 0, failed |-> 0,
        remaining |-> tr.totalChapters, percentage |-> 0]
  ELSE [total      |-> tr.totalChapters,
        completed  |-> Len(tr.checkpoint[1].completedChapters),
        failed     |-> Len(tr.checkpoint[1].failedChapters),
        remaining  |-> tr.totalChapters - Len(tr.checkpoint[1].completedChapters),
        percentage |-> getProgress(tr)]

\* variant of finalize that marks the checkpoint completed but keeps the file
finalizeKeepingFile(tr, dir) ==
  IF tr.checkpoint = Null THEN [tracker |-> tr, dir |-> dir]
  ELSE IF isComplete(tr)
  THEN LET checkpoint == [tr.checkpoint[1] EXCEPT !.status = "completed"]
       IN  [tracker |-> [tr EXCEPT !.checkpoint = Some(checkpoint)],
            dir     |-> saveCheckpoint(dir, tr.bookId, checkpoint)]
  ELSE [tracker |-> tr, dir |-> dir]

finalize(tr, dir) ==
  IF tr.checkpoint = Null THEN [tracker |-> tr, dir |-> dir]
  ELSE IF isComplete(tr)
  THEN LET checkpoint == [tr.checkpoint[1] EXCEPT !.status = "completed"]
       IN  [tracker |-> [tr EXCEPT !.checkpoint = Some(checkpoint)],
            dir     |-> deleteCheckpoint(saveCheckpoint(dir, tr.bookId, checkpoint),
                                         tr.bookId)]
  ELSE [tracker |-> tr, dir |-> dir]

(***************************************************************************)
(* CacheManager.  The cache directory is a function from book ids and      *)
(* chapter indices to an optional record [chapterIndex, content, hash]     *)
(* (the file <bookId>/chapters/chapter-<index>.json).                      *)
(***************************************************************************)
\* createHash('sha256').update(content).digest('hex'): the digest is a
\* function of the content and differs from the '' a caller passes
calculateHash(content) == <<"sha256", content>>

\* variant of getChapter that finds nothing
getChapterMissing(cacheDir, bookId, chapterIndex) == Null

\* variant of getChapter without the integrity check
getChapterUnverified(cacheDir, bookId, chapterIndex) ==
  LET stored == cacheDir[bookId][chapterIndex]
  IN  IF stored = Null THEN Null
      ELSE IF stored[1] = Truncated THEN Null
      ELSE stored

getChapter(cacheDir, bookId, chapterIndex) ==
  LET stored == cacheDir[bookId][chapterIndex]
  IN  IF stored = Null THEN Null
      ELSE IF stored[1] = Truncated THEN Null
      ELSE IF calculateHash(stored[1].content) # stored[1].hash THEN Null
      ELSE stored

\* variant of saveChapter that stores the hash the caller passed
saveChapterAsGiven(cacheDir, bookId, chapter) ==
  [cacheDir EXCEPT ![bookId][chapter.chapterIndex] = Some(chapter)]

\* variant of saveChapter that writes no file
saveChapterDropped(cacheDir, bookId, chapter) == cacheDir

saveChapter(cacheDir, bookId, chapter) ==
  [cacheDir EXCEPT ![bookId][chapter.chapterIndex] =
     Some([chapter EXCEPT !.hash = calculateHash(chapter.content)])]

(***************************************************************************)
(* ManifestManager.  The manifest file holds the array books; an entry is  *)
(* [id, chapterCount, status, outputPath].                                 *)
(***************************************************************************)
\* books.findIndex(book => book.id === id), 0 when there is none
FindIndex(books, id) ==
  IF \E k \in 1..Len(books) : books[k].id = id
  THEN CHOOSE k \in 1..Len(books) :
         books[k].id = id /\ \A j \in 1..(k - 1) : books[j].id # id
  ELSE 0

\* ManifestManager.load on the content of the manifest file: the Manifest
\* object, with no book when readFile or JSON.parse throws
load(file) ==
  IF file = Null THEN [books |-> <<>>]
  ELSE IF file[1] = Truncated THEN [books |-> <<>>]
  ELSE file[1]

\* variant of upsertBook that leaves the array as it is
upsertBookDropped(books, entry) == books

\* variant of upsertBook that always pushes the entry
upsertBookAppending(books, entry) == Append(books, entry)

upsertBook(books, entry) ==
  LET existingIndex == FindIndex(books, entry.id)
  IN  IF existingIndex > 0 THEN [books EXCEPT ![existingIndex] = entry]
      ELSE Append(books, entry)

\* ManifestManager.removeBook: books.filter(book => book.id !== bookId), and
\* whether an entry was removed (the file is saved only then)
removeBook(books, bookId) ==
  LET kept == SelectSeq(books, LAMBDA b : b.id # bookId)
  IN  [books |-> kept, removed |-> Len(kept) < Len(books)]

\* ManifestManager.getBook: books.find(book => book.id === bookId) || null
getBookEntry(books, bookId) ==
  LET k == FindIndex(books, bookId)
  IN  IF k > 0 THEN Some(books[k]) ELSE Null

(***************************************************************************)
(* ContentValidator.  Content is described by what the validator reads of  *)
(* it: [empty, errorPage, antiBot, tokens, singleChars, images,            *)
(* codeBlocks]; empty says that the trimmed content has length 0,          *)
(* errorPage that one of the error patterns occurs in the first 1000       *)
(* characters, antiBot that one of the anti-bot patterns occurs anywhere,  *)
(* tokens is the number of non-empty pieces of the content split at        *)
(* whitespace once its tags are replaced by spaces, singleChars the number *)
(* of those of one character, images and codeBlocks the numbers of <img>   *)
(* and of <pre> or <code> tags.                                            *)
(***************************************************************************)
\* ContentValidator.MIN_WORD_COUNT
MIN_WORD_COUNT == 100

\* the floor of "Word count is suspiciously low"
LowWordCount == 50

isErrorPage(content) == content.errorPage

isAntiBotPage(content) == content.antiBot

\* variant of getContentStats that counts the tokens of one character too
getContentStatsAllTokens(content) ==
  [wordCount      |-> content.tokens,
   imageCount     |-> content.images,
   codeBlockCount |-> content.codeBlocks]

\* words: the tokens left by filter(word => word.length > 1)
getContentStats(content) ==
  [wordCount      |-> content.tokens - content.singleChars,
   imageCount     |-> content.images,
   codeBlockCount |-> content.codeBlocks]

hasMinimumContent(content) == getContentStats(content).wordCount >= MIN_WORD_COUNT

\* variant of validateChapter in which a warning makes the content invalid
validateChapterStrict(content) ==
  LET stats == getContentStats(content)
      errors ==
        (IF content.empty THEN <<"Content is empty">> ELSE <<>>)
        \o (IF isErrorPage(content) THEN <<"Content appears to be an error page">>
            ELSE <<>>)
        \o (IF isAntiBotPage(content)
            THEN <<"Content appears to be an anti-bot challenge page">> ELSE <<>>)
        \o (IF stats.wordCount < LowWordCount
            THEN <<"Word count is suspiciously low">> ELSE <<>>)
      warnings ==
        IF ~hasMinimumContent(content) THEN <<"Content has fewer than 100 words">>
        ELSE <<>>
  IN  [isValid  |-> (Len(errors) = 0 /\ Len(warnings) = 0),
       errors   |-> errors,
       warnings |-> warnings,
       metadata |-> [wordCount     |-> stats.wordCount,
                     hasImages     |-> (stats.imageCount > 0),
                     hasCodeBlocks |-> (stats.codeBlockCount > 0)]]

validateChapter(content) ==
  LET stats == getContentStats(content)
      errors ==
        (IF content.empty THEN <<"Content is empty">> ELSE <<>>)
        \o (IF isErrorPage(content) THEN <<"Content appears to be an error page">>
            ELSE <<>>)
        \o (IF isAntiBotPage(content)
            THEN <<"Content appears to be an anti-bot challenge page">> ELSE <<>>)
        \o (IF stats.wordCount < LowWordCount
            THEN <<"Word count is suspiciously low">> ELSE <<>>)
      warnings ==
        IF ~hasMinimumContent(content) THEN <<"Content has fewer than 100 words">>
        ELSE <<>>
  IN  [isValid  |-> (Len(errors) = 0),
       errors   |-> errors,
       warnings |-> warnings,
       metadata |-> [wordCount     |-> stats.wordCount,
                     hasImages     |-> (stats.imageCount > 0),
                     hasCodeBlocks |-> (stats.codeBlockCount > 0)]]

(***************************************************************************)
(* Retry.  An error is [name, message, status]: name the lower-cased       *)
(* error name, message the set of the probed substrings that occur in the  *)
(* lower-cased message, status the statusCode/status property (0 when the  *)
(* error has none).                                                        *)
(***************************************************************************)
isRetryableError(error) ==
  IF error.name = "networkerror"
     \/ error.message \cap {"network", "econnreset", "econnrefused", "etimedout",
                            "socket hang up"} # {}
  THEN TRUE
  ELSE IF error.name = "timeouterror" \/ "timeout" \in error.message THEN TRUE
  ELSE IF error.status # 0
          /\ (error.status = 429
              \/ (error.status >= 500 /\ error.status < 600 /\ error.status # 501))
  THEN TRUE
  ELSE IF "page.goto" \in error.message /\ "timeout" \in error.message THEN TRUE
  ELSE IF "navigation" \in error.message THEN TRUE
  ELSE FALSE

\* new Error('Retry failed with unknown error')
UnknownRetryError == [name |-> "error", message |-> {}, status |-> 0]

\* outcomes[k] is what the k-th invocation of fn does: Null when it returns,
\* Some(error) when it throws.  The result is [ok, calls, sleeps, error]:
\* calls the number of invocations of fn, sleeps the attempt numbers handed
\* to getBackoffDelay, error the optional error thrown.
RECURSIVE RetryFrom(_, _, _, _)
RetryFrom(outcomes, maxAttempts, attempt, sleeps) ==
  IF attempt >= maxAttempts
  THEN [ok |-> FALSE, calls |-> attempt, sleeps |-> sleeps,
        error |-> IF attempt = 0 THEN Some(UnknownRetryError) ELSE outcomes[attempt]]
  ELSE IF outcomes[attempt + 1] = Null
  THEN [ok |-> TRUE, calls |-> attempt + 1, sleeps |-> sleeps, error |-> Null]
  ELSE IF ~isRetryableError(outcomes[attempt + 1][1]) \/ attempt = maxAttempts - 1
  THEN [ok |-> FALSE, calls |-> attempt + 1, sleeps |-> sleeps,
        error |-> outcomes[attempt + 1]]
  ELSE RetryFrom(outcomes, maxAttempts, attempt + 1, Append(sleeps, attempt))

\* variant of withRetry that allows one attempt more
withRetryOnceMore(outcomes, maxAttempts) == RetryFrom(outcomes, maxAttempts + 1, 0, <<>>)

\* variant of withRetry that gives up at the first error
withoutRetry(outcomes, maxAttempts) == RetryFrom(outcomes, 1, 0, <<>>)

withRetry(outcomes, maxAttempts) == RetryFrom(outcomes, maxAttempts, 0, <<>>)

RECURSIVE Pow(_, _)
Pow(base, exponent) == IF exponent = 0 THEN 1 ELSE base * Pow(base, exponent - 1)

Min(a, b) == IF a <= b THEN a ELSE b

\* const maxDelay = 60000
MaxDelay == 60000

\* variant of getBackoffDelay without the cap
getBackoffDelayUncapped(attempt, base, random) ==
  (2 * Pow(base, attempt) * (4000 + 2 * random) + 5) \div 10

\* getBackoffDelay with Math.random() = random / 1000:
\*   baseDelay = base^attempt * 1000
\*   randomFactor = 1 + (random / 1000 * 2 - 1) * 0.2 = (4000 + 2 * random) / 5000
\*   Math.round(x) = floor(x + 1/2)
getBackoffDelay(attempt, base, random) ==
  Min((2 * Pow(base, attempt) * (4000 + 2 * random) + 5) \div 10, MaxDelay)

(***************************************************************************)
(* BookScraper.getAllChapters.  A locator is the file of a chapter URL     *)
(* under the book's base URL, [name, num]: ch07.xhtml is ["ch", 7],        *)
(* part02.xhtml is ["part", 2], index.xhtml is ["index", 0].  A Chapter is *)
(* [url, index] (its title is not modelled).  The site the page shows is   *)
(*   [toc, served, onChapterUrl, nextLinks]:                               *)
(* toc the optional sequence of the locators the table of contents links   *)
(* (Null when no TOC element or no base URL is found), served the chapter  *)
(* numbers whose chNN.xhtml answers 200, onChapterUrl whether the current  *)
(* URL contains '/chapter/', nextLinks the length of the chain of "next"   *)
(* links from there.                                                       *)
(***************************************************************************)
Loc(name, num) == [name |-> name, num |-> num]

\* the last candidate number of the probe loop
ProbeLimit == 30

\* the safety limit of the "next" chain
NextLimit == 1000

getOrder(url) ==
  IF url.name = "index" THEN 0
  ELSE IF url.name = "titlepage" THEN 1
  ELSE IF url.name = "front-en" THEN 2
  ELSE IF url.name = "copy" THEN 3
  ELSE IF url.name = "foreword" THEN 4
  ELSE IF url = Loc("ch", 0) THEN 5
  ELSE IF url = Loc("part", 1) THEN 6
  ELSE IF url.name = "ch" THEN 10 + url.num
  ELSE IF url = Loc("part", 2) THEN 100
  ELSE IF url = Loc("part", 3) THEN 200
  ELSE IF url.name = "author" THEN 300
  ELSE IF url.name = "colophon" THEN 301
  ELSE 999

\* chapters.push({url, index: chapters.length})
PushChapter(chapters, url) == Append(chapters, [url |-> url, index |-> Len(chapters)])

RECURSIVE PushAll(_, _)
PushAll(chapters, urls) ==
  IF urls = <<>> THEN chapters
  ELSE PushAll(PushChapter(chapters, Head(urls)), Tail(urls))

\* tocElement.$$('a[href$=".xhtml"]:not([href*="#"])'): the anchors of the
\* TOC element are [url, fragment]; one whose href holds a '#' is not
\* selected, the others give their locators in document order
TocLinks(anchors) ==
  LET selected == SelectSeq(anchors, LAMBDA a : ~a.fragment)
  IN  [k \in 1..Len(selected) |-> selected[k].url]

\* variant of the probe loop without the alreadyExists test
RECURSIVE ProbeFromNoSkip(_, _, _)
ProbeFromNoSkip(chapters, served, chNum) ==
  IF chNum > ProbeLimit THEN chapters
  ELSE IF chNum \in served
  THEN ProbeFromNoSkip(PushChapter(chapters, Loc("ch", chNum)), served, chNum + 1)
  ELSE chapters

\* for (chNum = from; chNum <= 30; chNum++): skip a locator already listed,
\* push one that answers 200, stop at the first that does not
RECURSIVE ProbeFrom(_, _, _)
ProbeFrom(chapters, served, chNum) ==
  IF chNum > ProbeLimit THEN chapters
  ELSE IF \E k \in 1..Len(chapters) : chapters[k].url = Loc("ch", chNum)
  THEN ProbeFrom(chapters, served, chNum + 1)
  ELSE IF chNum \in served
  THEN ProbeFrom(PushChapter(chapters, Loc("ch", chNum)), served, chNum + 1)
  ELSE chapters

\* the candidate numbers for which the probe loop calls page.goto, in order
RECURSIVE ProbedFrom(_, _, _)
ProbedFrom(chapters, served, chNum) ==
  IF chNum > ProbeLimit THEN <<>>
  ELSE IF \E k \in 1..Len(chapters) : chapters[k].url = Loc("ch", chNum)
  THEN ProbedFrom(chapters, served, chNum + 1)
  ELSE IF chNum \in served
  THEN <<chNum>> \o ProbedFrom(PushChapter(chapters, Loc("ch", chNum)), served, chNum + 1)
  ELSE <<chNum>>

\* variant of the sort that puts a chapter before the ones of equal order
RECURSIVE InsertBeforeEqual(_, _)
InsertBeforeEqual(sorted, ch) ==
  IF sorted = <<>> THEN <<ch>>
  ELSE IF getOrder(ch.url) <= getOrder(sorted[Len(sorted)].url)
  THEN Append(InsertBeforeEqual(SubSeq(sorted, 1, Len(sorted) - 1), ch),
              sorted[Len(sorted)])
  ELSE Append(sorted, ch)

\* Array.prototype.sort with the comparator getOrder(a.url) - getOrder(b.url):
\* a stable sort
RECURSIVE InsertByOrder(_, _)
InsertByOrder(sorted, ch) ==
  IF sorted = <<>> THEN <<ch>>
  ELSE IF getOrder(ch.url) < getOrder(sorted[Len(sorted)].url)
  THEN Append(InsertByOrder(SubSeq(sorted, 1, Len(sorted) - 1), ch), sorted[Len(sorted)])
  ELSE Append(sorted, ch)

RECURSIVE SortByOrder(_)
SortByOrder(chapters) ==
  IF chapters = <<>> THEN <<>>
  ELSE InsertByOrder(SortByOrder(SubSeq(chapters, 1, Len(chapters) - 1)),
                     chapters[Len(chapters)])

\* chapters.forEach((ch, idx) => { ch.index = idx })
Reindex(chapters) == [k \in 1..Len(chapters) |-> [chapters[k] EXCEPT !.index = k - 1]]

\* the "next" chain of the alternative method: the current page as index 0,
\* then one chapter per next link while index < 1000
NextChain(nextLinks) ==
  LET n == IF nextLinks < NextLimit - 1 THEN nextLinks ELSE NextLimit - 1
  IN  [k \in 1..(n + 1) |-> [url |-> Loc("chapter", k - 1), index |-> k - 1]]

getAllChapters(site) ==
  LET fromToc ==
        IF site.toc # Null
        THEN Reindex(SortByOrder(ProbeFrom(PushAll(<<>>, site.toc[1]), site.served, 0)))
        ELSE <<>>
  IN  IF Len(fromToc) = 0
      THEN IF site.onChapterUrl THEN NextChain(site.nextLinks) ELSE <<>>
      ELSE fromToc

\* BookScraper.getBook once the navigation has succeeded
getBook(bookUrl, site) ==
  [id       |-> BookIdFromUrl(bookUrl),
   title    |-> site.title,
   url      |-> bookUrl,
   chapters |-> getAllChapters(site)]

(***************************************************************************)
(* BookScraper.getChapterContent.  navOutcomes are the outcomes of the     *)
(* successive page.goto attempts (see withRetry), waitOk whether the       *)
(* content selector appears, pageContent the content the page then holds.  *)
(* The result is [ok, content, nav, validated, why]: nav the withRetry     *)
(* result, validated whether validateChapter was reached, why the step     *)
(* that threw ("fetch": the navigation or the wait for the content         *)
(* selector, "validation") or "ok".                                        *)
(***************************************************************************)
\* variant of getChapterContent that returns the content whatever the
\* validator says
getChapterContentUnchecked(navOutcomes, waitOk, pageContent, maxAttempts) ==
  LET nav == withRetry(navOutcomes, maxAttempts)
  IN  IF ~nav.ok \/ ~waitOk
      THEN [ok |-> FALSE, content |-> Null, nav |-> nav, validated |-> FALSE,
            why |-> "fetch"]
      ELSE [ok |-> TRUE, content |-> Some(pageContent), nav |-> nav, validated |-> TRUE,
            why |-> "ok"]

getChapterContent(navOutcomes, waitOk, pageContent, maxAttempts) ==
  LET nav == withRetry(navOutcomes, maxAttempts)
  IN  IF ~nav.ok
      THEN [ok |-> FALSE, content |-> Null, nav |-> nav, validated |-> FALSE,
            why |-> "fetch"]
      ELSE IF ~waitOk
      THEN [ok |-> FALSE, content |-> Null, nav |-> nav, validated |-> FALSE,
            why |-> "fetch"]
      ELSE IF ~validateChapter(pageContent).isValid
      THEN [ok |-> FALSE, content |-> Null, nav |-> nav, validated |-> TRUE,
            why |-> "validation"]
      ELSE [ok |-> TRUE, content |-> Some(pageContent), nav |-> nav, validated |-> TRUE,
            why |-> "ok"]

(***************************************************************************)
(* StorageCoordinator.saveBook: the manifest entry it builds once the PDF  *)
(* is generated.  chapterContents is the Map as a function from the        *)
(* indices it holds to their content.  A path is the sequence of its       *)
(* components under booksDir.                                              *)
(***************************************************************************)
Str_pdf == <<".", "p", "d", "f">>

PdfPath(book) == <<book.id, sanitizeFilename(book.title) \o Str_pdf>>

Str_upper ==
  <<"A", "B", "C", "D", "E", "F", "G", "H", "I", "J", "K", "L", "M", "N", "O", "P", "Q",
    "R", "S", "T", "U", "V", "W", "X", "Y", "Z">>

Str_lower ==
  <<"a", "b", "c", "d", "e", "f", "g", "h", "i", "j", "k", "l", "m", "n", "o", "p", "q",
    "r", "s", "t", "u", "v", "w", "x", "y", "z">>

\* c.toLowerCase()
ToLowerCase(c) ==
  IF \E k \in 1..26 : Str_upper[k] = c
  THEN Str_lower[CHOOSE k \in 1..26 : Str_upper[k] = c]
  ELSE c

\* PDFGenerator.generateBookPDF: the path of the file it writes, outputDir
\* joined with
\*   title.replace(/[^a-z0-9]/gi, '_').replace(/_+/g, '_').toLowerCase()
\*     + '_' + timestamp + '.pdf'
\* timestamp being new Date().toISOString().split('T')[0]
generateBookPDF(book, outputDir, timestamp) ==
  LET replaced == [k \in 1..Len(book.title) |->
                     IF book.title[k] \in Range(Str_upper) \cup Range(Str_lower) \cup Digits
                     THEN book.title[k] ELSE "_"]
      collapsed == CollapseRuns(replaced, "_")
      sanitizedTitle == [k \in 1..Len(collapsed) |-> ToLowerCase(collapsed[k])]
  IN  outputDir \o <<sanitizedTitle \o <<"_">> \o timestamp \o Str_pdf>>

\* variant of the manifest entry whose status does not look at the contents
ManifestEntryAlwaysComplete(book, chapterContents) ==
  [id           |-> book.id,
   chapterCount |-> Len(book.chapters),
   status       |-> "complete",
   outputPath   |-> PdfPath(book)]

ManifestEntryOf(book, chapterContents) ==
  [id           |-> book.id,
   chapterCount |-> Len(book.chapters),
   status       |-> IF Cardinality(DOMAIN chapterContents) = Len(book.chapters)
                    THEN "complete" ELSE "partial",
   outputPath   |-> PdfPath(book)]

\* scrapeAllChapters after the loop: the chapters completed earlier are
\* loaded from the cache when chapters.length - remainingChapters.length > 0
LoadCompleted(chapterContents, cacheDir, book, remainingChapters) ==
  IF Len(book.chapters) - Len(remainingChapters) > 0
  THEN LET have == {i \in 0..(Len(book.chapters) - 1) :
                      i \in DOMAIN chapterContents
                      \/ getChapter(cacheDir, book.id, i) # Null}
       IN  [i \in have |->
              IF i \in DOMAIN chapterContents THEN chapterContents[i]
              ELSE getChapter(cacheDir, book.id, i)[1].content]
  ELSE chapterContents

\* variant of the manifest test that never short-circuits
NeverScraped(existingEntry) == FALSE

\* scrapeBook: the entry of the manifest says the book is already scraped
AlreadyScraped(existingEntry) ==
  existingEntry # Null /\ existingEntry[1].status = "complete"

(***************************************************************************)
(* The inputs of the pipeline.                                             *)
(***************************************************************************)
\* https://learning.oreilly.com/library/view/bk/97/ and the same URL
\* without the trailing slash
UrlSlash == Url(<<Str_library, Str_view, <<"b", "k">>, <<"9", "7">>>>, TRUE)

UrlNoSlash == Url(<<Str_library, Str_view, <<"b", "k">>, <<"9", "7">>>>, FALSE)

Urls == {UrlSlash, UrlNoSlash}

\* https://learning.oreilly.com/library/view/bk/98/, another document
UrlOther == Url(<<Str_library, Str_view, <<"b", "k">>, <<"9", "8">>>>, TRUE)

\* the batches of two documents
FaultBatches == {<<UrlSlash, UrlOther>>}

\* the batches appConfig.scraper.bookUrls of Spec: one document
Batches == {<<u>> : u \in Urls}

BookIds ==
  {sanitizeBookId(u) : u \in Urls \cup {UrlOther}}
  \cup {BookIdFromUrl(u) : u \in Urls \cup {UrlOther}}

Indices == 0..(MaxChapters - 1)

\* loadConfig: the default of MAX_RETRIES, handed to withRetry as maxAttempts
DefaultMaxRetries == 3

Str_title == <<"T">>

\* the sites of the model with at most n chapters: a TOC element without
\* chapter links with ch00..ch(k-1) answering the probes, a TOC that lists
\* ch01 and index with no chapter file answering, and a page without TOC
SitesUpTo(n) ==
  {[title |-> Str_title, toc |-> Some(<<>>), served |-> 0..(k - 1),
    onChapterUrl |-> FALSE, nextLinks |-> 0] : k \in 0..n}
  \cup {[title |-> Str_title, toc |-> Some(<<Loc("ch", 1), Loc("index", 0)>>),
         served |-> {}, onChapterUrl |-> FALSE, nextLinks |-> 0] : k \in 2..(IF n >= 2 THEN 2 ELSE 1)}
  \cup {[title |-> Str_title, toc |-> Null, served |-> {},
         onChapterUrl |-> FALSE, nextLinks |-> 0]}

GoodContent ==
  [empty |-> FALSE, errorPage |-> FALSE, antiBot |-> FALSE, tokens |-> 120,
   singleChars |-> 0, images |-> 0, codeBlocks |-> 0]

\* a page holding an anti-automation challenge
BotContent ==
  [empty |-> FALSE, errorPage |-> FALSE, antiBot |-> TRUE, tokens |-> 120,
   singleChars |-> 0, images |-> 0, codeBlocks |-> 0]

PageContents == {GoodContent, BotContent}

TimeoutError == [name |-> "timeouterror", message |-> {"timeout"}, status |-> 0]

FatalError == [name |-> "error", message |-> {}, status |-> 0]

\* what the successive page.goto attempts of one chapter do: timeouts, then
\* a success or an error that is not retryable (later attempts never happen)
NavOutcomes ==
  {o \in [1..DefaultMaxRetries -> {Null, Some(TimeoutError), Some(FatalError)}] :
     \A k \in 1..DefaultMaxRetries :
       o[k] # Some(TimeoutError) => \A j \in (k + 1)..DefaultMaxRetries : o[j] = Null}

(***************************************************************************)
(* State.                                                                  *)
(***************************************************************************)
VARIABLES
  site,              \* what the web source shows of the document
  manifest,          \* the array books of data/manifest.json
  checkpoints,       \* the progress directory: book id -> optional Checkpoint
  cache,             \* the cache directory: book id -> index -> optional record
  bookUrls,          \* appConfig.scraper.bookUrls of the job
  bookIndex,         \* main: number of documents of the batch taken so far
  results,           \* main: results
  pc,                \* position of the job / of scrapeBook
  result,            \* scrapeBook: result
  book,              \* scrapeBook: optional Book returned by getBook
  tracker,           \* scrapeBook: the ProgressTracker
  remainingChapters, \* scrapeAllChapters: remainingChapters
  pos,               \* scrapeAllChapters: position of the loop in remainingChapters
  chapterContents,   \* scrapeAllChapters: the Map chapterContents
  content,           \* scrapeAllChapters: optional content of the current chapter
  run,               \* what the current scrapeBook call has done so far
  call,              \* the last call made on a component alone, with what it returned
  files              \* the files of one record of each store, for the write protocol

vars == <<site, manifest, checkpoints, cache, bookUrls, bookIndex, results, pc, result, book,
          tracker, remainingChapters, pos, chapterContents, content, run, call, files>>

durable == <<manifest, checkpoints, cache>>

\* scrapeBook: bookUrl and bookId of the current call
bookUrl == bookUrls[bookIndex]

bookId == sanitizeBookId(bookUrl)

NewResult == [success |-> FALSE, outputPath |-> Null, error |-> Null]

\* the record of a scrapeBook call that has done nothing yet
NewRun ==
  [outcome     |-> [i \in Indices |-> "none"],
   starts      |-> <<>>,
   fetches     |-> <<>>,
   validations |-> <<>>,
   marks       |-> <<>>,
   nav         |-> Null,
   loaded      |-> Null,
   fresh       |-> FALSE,
   discoveries |-> 0,
   renders     |-> 0,
   committed   |-> Null,
   deleted     |-> FALSE,
   injected    |-> FALSE,
   rested      |-> TRUE,
   lost        |-> <<>>,
   crashedAt   |-> "none"]

\* the paths of the write protocol: the file of one record of each store and
\* the temporary file beside it
Stores == {"cache", "checkpoint", "manifest"}

Paths == [store : Stores, tmp : BOOLEAN]

NoFiles == [path \in Paths |-> Null]

EmptyCache == [id \in BookIds |-> [i \in Indices |-> Null]]

NoCheckpoints == [id \in BookIds |-> Null]

\* empty stores and a job, over one of the batches, that has not started
InitFiles(batches) ==
  /\ manifest = <<>>
  /\ checkpoints = NoCheckpoints
  /\ cache = EmptyCache
  /\ bookUrls \in batches
  /\ bookIndex = 0
  /\ results = <<>>
  /\ pc = "idle"
  /\ result = NewResult
  /\ book = Null
  /\ tracker = Null
  /\ remainingChapters = <<>>
  /\ pos = 1
  /\ chapterContents = <<>>
  /\ content = Null
  /\ run = NewRun
  /\ call = Null
  /\ files = NoFiles

InitStores == InitFiles(Batches)

\* a document whose site stays as it is
Init ==
  /\ site \in SitesUpTo(MaxChapters)
  /\ InitStores

\* a document whose site may change between two jobs
InitChange ==
  /\ site \in SitesUpTo(MaxChangedChapters)
  /\ InitStores

(***************************************************************************)
(* main: one job takes the documents of the batch one after another; a     *)
(* later job starts from the files the earlier ones left.                  *)
(***************************************************************************)
scrapeLocals == <<book, tracker, remainingChapters, pos, chapterContents, content>>

StartJob ==
  /\ pc = "idle"
  /\ pc' = "main"
  /\ UNCHANGED <<call, files, site, durable, bookUrls, bookIndex, results, result, scrapeLocals, run>>

\* variant of the loop test that leaves the loop after a failed document
moreBooksUnlessFailed(i, urls, done) ==
  i < Len(urls) /\ \A k \in DOMAIN done : done[k].error = Null

\* the test of the loop over the batch: i < bookUrls.length
moreBooks(i, urls, done) == i < Len(urls)

\* for (i = 0; i < bookUrls.length; i++) scrapeBook(bookUrls[i], ...)
CallScrapeBook ==
  /\ pc = "main"
  /\ moreBooks(bookIndex, bookUrls, results)
  /\ bookIndex' = bookIndex + 1
  /\ result' = NewResult
  /\ book' = Null
  /\ tracker' = Null
  /\ remainingChapters' = <<>>
  /\ pos' = 1
  /\ chapterContents' = <<>>
  /\ content' = Null
  /\ run' = [NewRun EXCEPT !.fresh =
               /\ manifest = <<>>
               /\ cache = EmptyCache
               /\ checkpoints[sanitizeBookId(bookUrls[bookIndex + 1])] = Null]
  /\ pc' = "check"
  /\ UNCHANGED <<call, files, site, durable, bookUrls, results>>

\* the batch is done: the process exits and only the files remain
EndJob ==
  /\ pc = "main"
  /\ ~moreBooks(bookIndex, bookUrls, results)
  /\ bookIndex' = 0
  /\ results' = <<>>
  /\ result' = NewResult
  /\ book' = Null
  /\ tracker' = Null
  /\ remainingChapters' = <<>>
  /\ pos' = 1
  /\ chapterContents' = <<>>
  /\ content' = Null
  /\ run' = NewRun
  /\ pc' = "idle"
  /\ UNCHANGED <<call, files, site, durable, bookUrls>>

\* results.push(result)
ReturnResult ==
  /\ pc = "done"
  /\ results' = Append(results, result)
  /\ pc' = "main"
  /\ UNCHANGED <<call, files, site, durable, bookUrls, bookIndex, result, scrapeLocals, run>>

(***************************************************************************)
(* scrapeBook.                                                             *)
(***************************************************************************)
\* manifestManager.getBook(bookId): return the stored result when the entry
\* is complete
CheckManifest ==
  /\ pc = "check"
  /\ LET existingEntry == getBookEntry(manifest, bookId)
     IN  IF AlreadyScraped(existingEntry)
         THEN /\ result' = [result EXCEPT !.success = TRUE,
                                          !.outputPath = Some(existingEntry[1].outputPath)]
              /\ pc' = "done"
         ELSE /\ result' = result
              /\ pc' = "discover"
  /\ UNCHANGED <<call, files, site, durable, bookUrls, bookIndex, results, scrapeLocals, run>>

\* scraper.getBook(bookUrl)
Discover ==
  /\ pc = "discover"
  /\ book' = Some(getBook(bookUrl, site))
  /\ run' = [run EXCEPT !.discoveries = @ + 1]
  /\ pc' = "init"
  /\ UNCHANGED <<call, files, site, durable, bookUrls, bookIndex, results, result, tracker,
                 remainingChapters, pos, chapterContents, content>>

\* scraper.getBook throws: its navigation fails after the retries
DiscoverFails ==
  /\ pc = "discover"
  /\ run' = [run EXCEPT !.discoveries = @ + 1, !.injected = TRUE]
  /\ result' = [result EXCEPT !.error = Some("getBook")]
  /\ pc' = "done"
  /\ UNCHANGED <<call, files, site, durable, bookUrls, bookIndex, results, scrapeLocals>>

\* new ProgressTracker(...).initialize(), getRemainingChapters(), and the
\* first lines of scrapeAllChapters
InitTracker ==
  /\ pc = "init"
  /\ LET init == initialize(NewTracker(bookId, Len(book[1].chapters)), checkpoints)
     IN  /\ tracker' = Some(init.tracker)
         /\ checkpoints' = init.dir
         /\ remainingChapters' = getRemainingChapters(init.tracker)
         /\ run' = [run EXCEPT !.loaded =
                      IF loadCheckpoint(checkpoints, bookId) = Null THEN Null
                      ELSE Some(Range(loadCheckpoint(checkpoints, bookId)[1]
                                        .completedChapters))]
  /\ pos' = 1
  /\ chapterContents' = <<>>
  /\ pc' = "loop"
  /\ UNCHANGED <<call, files, site, manifest, cache, bookUrls, bookIndex, results, result, book, content>>

(***************************************************************************)
(* BookScraper.scrapeAllChapters: for (const chapterIndex of                *)
(* remainingChapters) { try { ... } catch { ... } }.                       *)
(***************************************************************************)
chapterIndex == remainingChapters[pos]

\* variant of the catch block that leaves the loop (break)
BreakAfterFailure(position, remaining) == Len(remaining) + 1

\* the loop position after the catch block (continue)
AfterFailure(position, remaining) == position + 1

\* chapters[chapterIndex] is undefined: continue; else startChapter
StartChapter ==
  /\ pc = "loop"
  /\ pos <= Len(remainingChapters)
  /\ IF chapterIndex >= Len(book[1].chapters)
     THEN /\ pos' = pos + 1
          /\ pc' = "loop"
          /\ UNCHANGED <<tracker, checkpoints, run>>
     ELSE LET started == startChapter(tracker[1], checkpoints, chapterIndex)
          IN  /\ tracker' = Some(started.tracker)
              /\ checkpoints' = started.dir
              /\ run' = [run EXCEPT !.starts = Append(@, chapterIndex), !.nav = Null]
              /\ pos' = pos
              /\ pc' = "started"
  /\ content' = Null
  /\ UNCHANGED <<call, files, site, manifest, cache, bookUrls, bookIndex, results, result, book,
                 remainingChapters, chapterContents>>

\* cacheManager.getChapter(book.id, chapterIndex)
CacheLookup ==
  /\ pc = "started"
  /\ LET cachedChapter == getChapter(cache, book[1].id, chapterIndex)
     IN  IF cachedChapter # Null
         THEN /\ content' = Some(cachedChapter[1].content)
              /\ run' = [run EXCEPT !.outcome[chapterIndex] = "hit"]
              /\ pc' = "complete"
         ELSE /\ content' = Null
              /\ run' = run
              /\ pc' = "fetch"
  /\ UNCHANGED <<call, files, site, durable, bookUrls, bookIndex, results, result, book, tracker,
                 remainingChapters, pos, chapterContents>>

\* this.getChapterContent(chapter.url, chapter.title)
FetchChapter ==
  /\ pc = "fetch"
  /\ \E navOutcomes \in NavOutcomes, waitOk \in BOOLEAN, pageContent \in PageContents :
       LET got == getChapterContent(navOutcomes, waitOk, pageContent, DefaultMaxRetries)
       IN  /\ content' = got.content
           /\ run' = [run EXCEPT
                        !.outcome[chapterIndex] = got.why,
                        !.fetches = Append(@, chapterIndex),
                        !.validations = IF got.validated THEN Append(@, chapterIndex)
                                        ELSE @,
                        !.nav = Some([index    |-> chapterIndex,
                                      outcomes |-> navOutcomes,
                                      page     |-> IF got.nav.ok /\ waitOk
                                                   THEN Some(pageContent) ELSE Null,
                                      calls    |-> got.nav.calls,
                                      sleeps   |-> got.nav.sleeps]),
                        !.injected = @ \/ ~got.ok \/ got.nav.calls > 1]
           /\ pc' = IF got.ok THEN "cachesave" ELSE "fail"
  /\ UNCHANGED <<call, files, site, durable, bookUrls, bookIndex, results, result, book, tracker,
                 remainingChapters, pos, chapterContents>>

\* cacheManager.saveChapter(book.id, {chapterIndex, ..., content, hash: ''})
SaveToCache ==
  /\ pc = "cachesave"
  /\ cache' = saveChapter(cache, book[1].id,
                          [chapterIndex |-> chapterIndex,
                           url          |-> book[1].chapters[chapterIndex + 1].url,
                           content      |-> content[1],
                           hash         |-> <<>>])
  /\ pc' = "complete"
  /\ UNCHANGED <<call, files, site, manifest, checkpoints, bookUrls, bookIndex, results, result,
                 scrapeLocals, run>>

\* chapterContents.set(chapterIndex, content); progressTracker.completeChapter
CompleteChapter ==
  /\ pc = "complete"
  /\ chapterContents' =
       [i \in DOMAIN chapterContents \cup {chapterIndex} |->
          IF i = chapterIndex THEN content[1] ELSE chapterContents[i]]
  /\ LET completed == completeChapter(tracker[1], checkpoints, chapterIndex)
     IN  /\ tracker' = Some(completed.tracker)
         /\ checkpoints' = completed.dir
  /\ run' = [run EXCEPT !.marks = Append(@, <<chapterIndex, "completed">>),
                        !.rested = FALSE]
  /\ pc' = "delay"
  /\ UNCHANGED <<call, files, site, manifest, cache, bookUrls, bookIndex, results, result, book,
                 remainingChapters, pos, content>>

\* delay(getRequestDelay()) and the next iteration
RateLimitDelay ==
  /\ pc = "delay"
  /\ run' = [run EXCEPT !.rested = TRUE]
  /\ pos' = pos + 1
  /\ content' = Null
  /\ pc' = "loop"
  /\ UNCHANGED <<call, files, site, durable, bookUrls, bookIndex, results, result, book, tracker,
                 remainingChapters, chapterContents>>

\* catch: progressTracker.failChapter(chapterIndex); continue
FailChapter ==
  /\ pc = "fail"
  /\ LET failed == failChapter(tracker[1], checkpoints, chapterIndex)
     IN  /\ tracker' = Some(failed.tracker)
         /\ checkpoints' = failed.dir
  /\ run' = [run EXCEPT !.marks = Append(@, <<chapterIndex, "failed">>),
                        !.rested = FALSE]
  /\ pos' = AfterFailure(pos, remainingChapters)
  /\ content' = Null
  /\ pc' = "loop"
  /\ UNCHANGED <<call, files, site, manifest, cache, bookUrls, bookIndex, results, result, book,
                 remainingChapters, chapterContents>>

\* after the loop: load the chapters completed earlier from the cache
EndLoop ==
  /\ pc = "loop"
  /\ pos > Len(remainingChapters)
  /\ chapterContents' = LoadCompleted(chapterContents, cache, book[1], remainingChapters)
  /\ pc' = "render"
  /\ UNCHANGED <<call, files, site, durable, bookUrls, bookIndex, results, result, book, tracker,
                 remainingChapters, pos, content, run>>

(***************************************************************************)
(* StorageCoordinator.saveBook and ProgressTracker.finalize.               *)
(***************************************************************************)
\* pdfGenerator.generateBookPDF(...) returns
RenderPDF ==
  /\ pc = "render"
  /\ run' = [run EXCEPT !.renders = @ + 1]
  /\ pc' = "commit"
  /\ UNCHANGED <<call, files, site, durable, bookUrls, bookIndex, results, result, scrapeLocals>>

\* variant of RenderFails that writes the manifest entry all the same
RenderFailsAndCommits ==
  /\ pc = "render"
  /\ run' = [run EXCEPT !.renders = @ + 1, !.injected = TRUE]
  /\ manifest' = upsertBook(manifest, ManifestEntryOf(book[1], chapterContents))
  /\ result' = [result EXCEPT !.error = Some("render")]
  /\ pc' = "done"
  /\ UNCHANGED <<call, files, site, checkpoints, cache, bookUrls, bookIndex, results,
                 scrapeLocals>>

\* pdfGenerator.generateBookPDF(...) throws: scrapeBook catches and returns
RenderFails ==
  /\ pc = "render"
  /\ run' = [run EXCEPT !.renders = @ + 1, !.injected = TRUE]
  /\ result' = [result EXCEPT !.error = Some("render")]
  /\ pc' = "done"
  /\ UNCHANGED <<call, files, site, durable, bookUrls, bookIndex, results, scrapeLocals>>

\* manifestManager.upsertBook(manifestEntry); result.success = true
CommitManifest ==
  /\ pc = "commit"
  /\ LET manifestEntry == ManifestEntryOf(book[1], chapterContents)
     IN  /\ manifest' = upsertBook(manifest, manifestEntry)
         /\ result' = [result EXCEPT !.success = TRUE,
                                     !.outputPath = Some(manifestEntry.outputPath)]
         /\ run' = [run EXCEPT !.committed = Some(manifestEntry.status)]
  /\ pc' = "finalize"
  /\ UNCHANGED <<call, files, site, checkpoints, cache, bookUrls, bookIndex, results, scrapeLocals>>

\* progressTracker.finalize()
Finalize ==
  /\ pc = "finalize"
  /\ LET final == finalize(tracker[1], checkpoints)
     IN  /\ tracker' = Some(final.tracker)
         /\ checkpoints' = final.dir
         /\ run' = [run EXCEPT !.deleted = isComplete(tracker[1])]
  /\ pc' = "done"
  /\ UNCHANGED <<call, files, site, manifest, cache, bookUrls, bookIndex, results, result, book,
                 remainingChapters, pos, chapterContents, content>>

\* between two jobs the web source changes the document
SiteChanges ==
  /\ pc = "idle"
  /\ site' \in SitesUpTo(MaxChangedChapters) \ {site}
  /\ UNCHANGED <<call, files, durable, bookUrls, bookIndex, results, pc, result, scrapeLocals,
                 run>>

Next ==
  \/ StartJob
  \/ CallScrapeBook
  \/ EndJob
  \/ ReturnResult
  \/ CheckManifest
  \/ Discover
  \/ DiscoverFails
  \/ InitTracker
  \/ StartChapter
  \/ CacheLookup
  \/ FetchChapter
  \/ SaveToCache
  \/ CompleteChapter
  \/ RateLimitDelay
  \/ FailChapter
  \/ EndLoop
  \/ RenderPDF
  \/ RenderFails
  \/ CommitManifest
  \/ Finalize

Spec == Init /\ [][Next]_vars

NextChange == Next \/ SiteChanges

SpecChange == InitChange /\ [][NextChange]_vars

(***************************************************************************)
(* One job over a batch of two documents, started on empty stores, in     *)
(* which a durable write may throw (fs.mkdir, fs.writeFile or fs.rename    *)
(* fails: saveCheckpoint, saveChapter and ManifestManager.save rethrow)    *)
(* and the process may be killed at any point.  run.lost lists the writes  *)
(* that threw, as <<store, index>>.                                        *)
(***************************************************************************)
\* startChapter: currentChapter is set in memory, saveCheckpoint throws, the
\* catch block of the loop takes over
StartChapterFails ==
  /\ pc = "loop"
  /\ pos <= Len(remainingChapters)
  /\ chapterIndex < Len(book[1].chapters)
  /\ tracker' = Some(startChapterUnsaved(tracker[1], checkpoints, chapterIndex).tracker)
  /\ run' = [run EXCEPT !.starts = Append(@, chapterIndex), !.nav = Null,
                        !.outcome[chapterIndex] = "persist",
                        !.lost = Append(@, <<"checkpoint", chapterIndex>>),
                        !.injected = TRUE]
  /\ content' = Null
  /\ pc' = "fail"
  /\ UNCHANGED <<call, files, site, durable, bookUrls, bookIndex, results, result, book,
                 remainingChapters, pos, chapterContents>>

\* cacheManager.saveChapter throws: the catch block of the loop takes over
SaveToCacheFails ==
  /\ pc = "cachesave"
  /\ run' = [run EXCEPT !.outcome[chapterIndex] = "persist",
                        !.lost = Append(@, <<"cache", chapterIndex>>),
                        !.injected = TRUE]
  /\ pc' = "fail"
  /\ UNCHANGED <<call, files, site, durable, bookUrls, bookIndex, results, result,
                 scrapeLocals>>

\* chapterContents.set(chapterIndex, content), then the saveCheckpoint of
\* markChapterComplete throws: the catch block of the loop takes over
CompleteChapterFails ==
  /\ pc = "complete"
  /\ chapterContents' =
       [i \in DOMAIN chapterContents \cup {chapterIndex} |->
          IF i = chapterIndex THEN content[1] ELSE chapterContents[i]]
  /\ run' = [run EXCEPT !.outcome[chapterIndex] = "persist",
                        !.lost = Append(@, <<"checkpoint", chapterIndex>>),
                        !.injected = TRUE]
  /\ pc' = "fail"
  /\ UNCHANGED <<call, files, site, durable, bookUrls, bookIndex, results, result, book,
                 tracker, remainingChapters, pos, content>>

\* the saveCheckpoint of markChapterFailed throws inside the catch block:
\* scrapeAllChapters throws and scrapeBook catches and returns
FailChapterFails ==
  /\ pc = "fail"
  /\ run' = [run EXCEPT !.lost = Append(@, <<"checkpoint", chapterIndex>>),
                        !.injected = TRUE]
  /\ result' = [result EXCEPT !.error = Some("checkpoint")]
  /\ pc' = "done"
  /\ UNCHANGED <<call, files, site, durable, bookUrls, bookIndex, results, scrapeLocals>>

\* manifestManager.upsertBook throws in saveBook: scrapeBook catches and
\* returns
CommitManifestFails ==
  /\ pc = "commit"
  /\ run' = [run EXCEPT !.lost = Append(@, <<"manifest", NoChapter>>),
                        !.injected = TRUE]
  /\ result' = [result EXCEPT !.error = Some("manifest")]
  /\ pc' = "done"
  /\ UNCHANGED <<call, files, site, durable, bookUrls, bookIndex, results, scrapeLocals>>

\* the process is killed: the files stay as they are (run.crashedAt keeps
\* the position, and the memory of the dead process is kept for inspection)
Crash ==
  /\ pc \notin {"idle", "crashed"}
  /\ ~(pc = "main" /\ ~moreBooks(bookIndex, bookUrls, results))
  /\ run' = [run EXCEPT !.crashedAt = pc]
  /\ pc' = "crashed"
  /\ UNCHANGED <<call, files, site, durable, bookUrls, bookIndex, results, result,
                 scrapeLocals>>

InitFault ==
  /\ site \in SitesUpTo(MaxFaultChapters)
  /\ InitFiles(FaultBatches)

\* one job: the steps of main and scrapeBook up to the end of the batch
NextFault ==
  \/ StartJob
  \/ CallScrapeBook
  \/ ReturnResult
  \/ CheckManifest
  \/ Discover
  \/ DiscoverFails
  \/ InitTracker
  \/ StartChapter
  \/ StartChapterFails
  \/ CacheLookup
  \/ FetchChapter
  \/ SaveToCache
  \/ SaveToCacheFails
  \/ CompleteChapter
  \/ CompleteChapterFails
  \/ RateLimitDelay
  \/ FailChapter
  \/ FailChapterFails
  \/ EndLoop
  \/ RenderPDF
  \/ RenderFails
  \/ CommitManifest
  \/ CommitManifestFails
  \/ Finalize
  \/ Crash

SpecFault == InitFault /\ [][NextFault]_vars

(***************************************************************************)
(* The ProgressTracker driven directly: any calls, in any order, for any   *)
(* chapter index, on the checkpoint of one book.                           *)
(***************************************************************************)
ApiBookId == sanitizeBookId(UrlSlash)

ApiIndices == 0..MaxIndex

InitCheckpoint ==
  /\ site \in SitesUpTo(0)
  /\ InitStores
  /\ bookUrls = <<UrlSlash>>

apiFrame == <<site, manifest, cache, bookUrls, bookIndex, results, pc, result, book,
              remainingChapters, pos, chapterContents, content, run, call, files>>

ApiInitialize ==
  /\ \E totalChapters \in 1..(MaxIndex + 1) :
       LET init == initialize(NewTracker(ApiBookId, totalChapters), checkpoints)
       IN  /\ tracker' = Some(init.tracker)
           /\ checkpoints' = init.dir
  /\ UNCHANGED apiFrame

ApiStartChapter ==
  /\ tracker # Null
  /\ \E i \in ApiIndices :
       LET started == startChapter(tracker[1], checkpoints, i)
       IN  /\ tracker' = Some(started.tracker)
           /\ checkpoints' = started.dir
  /\ UNCHANGED apiFrame

ApiCompleteChapter ==
  /\ tracker # Null
  /\ \E i \in ApiIndices :
       LET completed == completeChapter(tracker[1], checkpoints, i)
       IN  /\ tracker' = Some(completed.tracker)
           /\ checkpoints' = completed.dir
  /\ UNCHANGED apiFrame

ApiFailChapter ==
  /\ tracker # Null
  /\ \E i \in ApiIndices :
       LET failed == failChapter(tracker[1], checkpoints, i)
       IN  /\ tracker' = Some(failed.tracker)
           /\ checkpoints' = failed.dir
  /\ UNCHANGED apiFrame

\* finalize, after which the tracker object is dropped
ApiFinalize ==
  /\ tracker # Null
  /\ tracker[1].checkpoint # Null
  /\ checkpoints' = finalize(tracker[1], checkpoints).dir
  /\ tracker' = Null
  /\ UNCHANGED apiFrame

NextCheckpoint ==
  \/ ApiInitialize
  \/ ApiStartChapter
  \/ ApiCompleteChapter
  \/ ApiFailChapter
  \/ ApiFinalize

SpecCheckpoint == InitCheckpoint /\ [][NextCheckpoint]_vars

(***************************************************************************)
(* The components called alone, with arguments of any value; call keeps    *)
(* the last call and what it returned.                                     *)
(***************************************************************************)
callFrame == <<site, manifest, checkpoints, bookUrls, bookIndex, results, pc, result, book,
               tracker, remainingChapters, pos, chapterContents, content, run, files>>

CacheIndices == 0..MaxCacheIndex

\* the hash field a caller passes: '', the digest, or another digest
GivenHashes(pageContent) ==
  {<<>>, calculateHash(pageContent)} \cup {calculateHash(c) : c \in PageContents}

\* a stored digest with a bit flipped
FlipHash(hash) == <<"flipped", hash[2]>>

\* the last call when it wrote the cache file, for the read that follows it
LastWrite ==
  IF call # Null /\ call[1].op \in {"saveChapter", "alterHash", "truncate", "unlink"}
  THEN call ELSE Null

CallSaveChapter ==
  /\ \E i \in CacheIndices, pageContent \in PageContents :
       \E hash \in GivenHashes(pageContent) :
         /\ cache' = saveChapter(cache, ApiBookId,
                                 [chapterIndex |-> i, url |-> Loc("ch", i),
                                  content |-> pageContent, hash |-> hash])
         /\ call' = Some([op |-> "saveChapter", chapterIndex |-> i,
                          content |-> pageContent, hash |-> hash])
  /\ UNCHANGED callFrame

CallGetChapter ==
  /\ \E i \in CacheIndices :
       call' = Some([op |-> "getChapter", chapterIndex |-> i, after |-> LastWrite,
                     returned |-> getChapter(cache, ApiBookId, i)])
  /\ UNCHANGED <<cache, callFrame>>

\* the stored hash of a record is altered on disk, between two jobs
AlterStoredHash ==
  /\ pc = "idle"
  /\ \E id \in BookIds, i \in Indices :
       /\ cache[id][i] # Null
       /\ cache[id][i][1] # Truncated
       /\ cache' = [cache EXCEPT ![id][i] = Some([@[1] EXCEPT !.hash = FlipHash(@)])]
       /\ call' = Some([op |-> "alterHash", bookId |-> id, chapterIndex |-> i])
  /\ UNCHANGED callFrame

\* the file of a record is cut short on disk, between two jobs
TruncateStored ==
  /\ pc = "idle"
  /\ \E id \in BookIds, i \in Indices :
       /\ cache[id][i] # Null
       /\ cache' = [cache EXCEPT ![id][i] = Some(Truncated)]
       /\ call' = Some([op |-> "truncate", bookId |-> id, chapterIndex |-> i])
  /\ UNCHANGED callFrame

\* the file of a record is removed, between two jobs
UnlinkStored ==
  /\ pc = "idle"
  /\ \E id \in BookIds, i \in Indices :
       /\ cache[id][i] # Null
       /\ cache' = [cache EXCEPT ![id][i] = Null]
       /\ call' = Some([op |-> "unlink", bookId |-> id, chapterIndex |-> i])
  /\ UNCHANGED callFrame

NextCalls ==
  \/ CallSaveChapter
  \/ CallGetChapter
  \/ AlterStoredHash
  \/ TruncateStored
  \/ UnlinkStored

SpecCalls == InitCheckpoint /\ [][NextCalls]_vars

\* the scraping jobs of a document whose cache files are damaged between jobs
InitCorrupt ==
  /\ site \in SitesUpTo(MaxCorruptChapters)
  /\ InitStores

NextCorrupt ==
  \/ Next
  \/ AlterStoredHash
  \/ TruncateStored
  \/ UnlinkStored

SpecCorrupt == InitCorrupt /\ [][NextCorrupt]_vars

(***************************************************************************)
(* The write of a record, step by step: writeFile(tempPath, ...), then     *)
(* rename(tempPath, path); the process may be killed at any step.  files   *)
(* holds, for one record of each store, the file and its temporary file;   *)
(* call holds the write in progress, [store, previous, new, phase].        *)
(***************************************************************************)
writeFrame == <<site, manifest, checkpoints, cache, bookUrls, bookIndex, results, pc, result,
                book, tracker, remainingChapters, pos, chapterContents, content, run>>

PathOf(store) == [store |-> store, tmp |-> FALSE]

\* variant of tempPath that names the file itself
samePath(path) == path

\* `${path}.tmp`
tempPath(path) == [path EXCEPT !.tmp = TRUE]

\* fs.rename: the file at the destination is replaced in one step
rename(fs, from, to) ==
  IF from = to THEN fs ELSE [fs EXCEPT ![to] = fs[from], ![from] = Null]

\* what the reader of a store gets from the content of its file
readRecord(store, file) ==
  IF store = "cache"
  THEN getChapter([id \in BookIds |-> [i \in Indices |-> file]], ApiBookId, 0)
  ELSE IF store = "checkpoint"
  THEN loadCheckpoint([id \in BookIds |-> file], ApiBookId)
  ELSE Some(load(file))

\* the records the writers of a store hand to writeFile
WrittenRecords(store) ==
  IF store = "cache"
  THEN {[chapterIndex |-> 0, url |-> Loc("ch", 0), content |-> c,
         hash |-> calculateHash(c)] : c \in PageContents}
  ELSE IF store = "checkpoint"
  THEN {NewCheckpoint(1), [NewCheckpoint(1) EXCEPT !.completedChapters = <<0>>]}
  ELSE {[books |-> <<>>]}
       \cup {[books |-> <<[id |-> ApiBookId, chapterCount |-> 1, status |-> st,
                           outputPath |-> <<ApiBookId, Str_pdf>>]>>] :
               st \in {"partial", "complete"}}

WriteInProgress == call # Null /\ call[1].phase \in {"called", "writing", "written"}

\* saveChapter, saveCheckpoint or ManifestManager.save is entered
CallWrite ==
  /\ ~WriteInProgress
  /\ \E store \in Stores :
       \E new \in WrittenRecords(store) :
         call' = Some([op |-> "write", store |-> store, new |-> new,
                       previous |-> readRecord(store, files[PathOf(store)]),
                       phase |-> "called", crashed |-> FALSE])
  /\ UNCHANGED <<files, writeFrame>>

\* writeFile has created the temporary file and written a part of it
WriteFilePartly ==
  /\ call # Null
  /\ ~call[1].crashed
  /\ call[1].phase = "called"
  /\ files' = [files EXCEPT ![tempPath(PathOf(call[1].store))] = Some(Truncated)]
  /\ call' = Some([call[1] EXCEPT !.phase = "writing"])
  /\ UNCHANGED writeFrame

\* writeFile returns
WriteFileDone ==
  /\ call # Null
  /\ ~call[1].crashed
  /\ call[1].phase = "writing"
  /\ files' = [files EXCEPT ![tempPath(PathOf(call[1].store))] = Some(call[1].new)]
  /\ call' = Some([call[1] EXCEPT !.phase = "written"])
  /\ UNCHANGED writeFrame

\* rename returns, and the write with it
RenameDone ==
  /\ call # Null
  /\ ~call[1].crashed
  /\ call[1].phase = "written"
  /\ files' = rename(files, tempPath(PathOf(call[1].store)), PathOf(call[1].store))
  /\ call' = Some([call[1] EXCEPT !.phase = "renamed"])
  /\ UNCHANGED writeFrame

\* the process is killed during the write; the files stay as they are
CrashInWrite ==
  /\ call # Null
  /\ ~call[1].crashed
  /\ call' = Some([call[1] EXCEPT !.crashed = TRUE])
  /\ UNCHANGED <<files, writeFrame>>

NextWrite ==
  \/ CallWrite
  \/ WriteFilePartly
  \/ WriteFileDone
  \/ RenameDone
  \/ CrashInWrite

SpecWrite == InitCheckpoint /\ [][NextWrite]_vars

(***************************************************************************)
(* The functions of the retry module and the validator called alone.       *)
(***************************************************************************)
pureFrame == <<site, manifest, checkpoints, cache, bookUrls, bookIndex, results, pc, result,
               book, tracker, remainingChapters, pos, chapterContents, content, run, files>>

\* Each behaviour observes one call: call holds its arguments and what it
\* returned.

\* what the successive invocations of fn do: retryable errors, then a
\* success or an error that is not retryable
RetryOutcomes(len) ==
  {o \in [1..len -> {Null, Some(TimeoutError), Some(FatalError)}] :
     \A k \in 1..len : o[k] # Some(TimeoutError) => \A j \in (k + 1)..len : o[j] = Null}

Randoms == {(k * 999) \div RandomSteps : k \in 0..RandomSteps}

\* the substrings of an error message the classifier probes, and three it
\* does not
MessageParts ==
  {"network", "econnreset", "econnrefused", "etimedout", "socket hang up", "timeout",
   "page.goto", "navigation", "enotfound", "content validation failed", "login failed"}

Errors ==
  [name    : {"error", "timeouterror", "networkerror"},
   message : {m \in SUBSET MessageParts : Cardinality(m) <= 2},
   status  : {0, 400, 401, 403, 404, 429, 499, 500, 501, 502, 503, 599, 600}]

Contents ==
  {c \in [empty : BOOLEAN, errorPage : BOOLEAN, antiBot : BOOLEAN,
          tokens : 0..MaxTokens, singleChars : 0..MaxSingleChars,
          images : 0..1, codeBlocks : 0..1] :
     /\ c.singleChars <= c.tokens
     /\ c.empty => (/\ c.tokens = 0 /\ ~c.errorPage /\ ~c.antiBot
                    /\ c.images = 0 /\ c.codeBlocks = 0)}

\* the files the anchors of a table of contents link: front matter, body
\* chapters, a part page, back matter and two files of no recognized name
TocLocators ==
  {Loc("index", 0), Loc("titlepage", 0), Loc("front-en", 0), Loc("copy", 0),
   Loc("foreword", 0), Loc("ch", 0), Loc("ch", 1), Loc("ch", 2), Loc("part", 2),
   Loc("author", 0), Loc("colophon", 0), Loc("preface", 0), Loc("appendix", 0)}

\* the anchors of a TOC element: a link to each file, and links into
\* sections (href with a fragment) of two of them
Anchors ==
  {[url |-> u, fragment |-> FALSE] : u \in TocLocators}
  \cup {[url |-> u, fragment |-> TRUE] : u \in {Loc("ch", 1), Loc("preface", 0)}}

RECURSIVE SeqsUpTo(_, _)
SeqsUpTo(S, n) ==
  IF n = 0 THEN {<<>>}
  ELSE LET shorter == SeqsUpTo(S, n - 1)
       IN  shorter \cup {Append(q, x) : q \in {r \in shorter : Len(r) = n - 1}, x \in S}

\* the chapter numbers whose chNN.xhtml answers 200: ch00 up to some
\* chapter, every number up to one beyond the range of the probe loop, and a
\* book without ch00
ServedSets ==
  {0..(k - 1) : k \in 0..MaxServed} \cup {0..(ProbeLimit + 1)} \cup {{1, 2}}

DiscoverySites ==
  {[title |-> Str_title, toc |-> Some(TocLinks(anchors)), served |-> served,
    onChapterUrl |-> FALSE, nextLinks |-> 0, anchors |-> anchors] :
     anchors \in SeqsUpTo(Anchors, MaxTocLinks), served \in ServedSets}
  \cup {[title |-> Str_title, toc |-> Null, served |-> served,
          onChapterUrl |-> onChapterUrl, nextLinks |-> nextLinks, anchors |-> <<>>] :
           served \in ServedSets, onChapterUrl \in BOOLEAN, nextLinks \in 0..1}

\* getAllChapters on a reading view; probes are the numbers the probe loop
\* requested (none when the TOC element or the base URL is missing)
CallGetAllChapters ==
  /\ call = Null
  /\ \E s \in DiscoverySites :
       call' = Some([op |-> "getAllChapters", site |-> s,
                     listed |-> IF s.toc = Null THEN <<>> ELSE PushAll(<<>>, s.toc[1]),
                     probes |-> IF s.toc = Null THEN <<>>
                                ELSE ProbedFrom(PushAll(<<>>, s.toc[1]), s.served, 0),
                     returned |-> getAllChapters(s)])
  /\ UNCHANGED pureFrame

\* the characters of the titles: a capital, a small letter, a digit, a
\* space, a hyphen, an underscore and a slash
TitleChars == {"T", "a", "1", " ", "-", "_", "/"}

\* the days on which a book is rendered
Timestamps ==
  {<<"2", "0", "2", "6", "-", "1", "1", "-", "0", "3">>,
   <<"2", "0", "2", "6", "-", "1", "1", "-", "0", "4">>}

\* StorageCoordinator.saveBook on a book with every chapter in
\* chapterContents: the manifest entry it returns and the path of the file
\* generateBookPDF wrote into bookDir
CallSaveBook ==
  /\ call = Null
  /\ \E title \in SeqsUpTo(TitleChars, MaxTitleLength), timestamp \in Timestamps,
        id \in BookIds :
       LET saved == [id |-> id, title |-> title, url |-> UrlSlash, chapters |-> <<>>]
       IN  call' = Some([op |-> "saveBook", book |-> saved, timestamp |-> timestamp,
                         written |-> generateBookPDF(saved, <<saved.id>>, timestamp),
                         returned |-> ManifestEntryOf(saved, <<>>)])
  /\ UNCHANGED pureFrame

CallWithRetry ==
  /\ call = Null
  /\ \E maxAttempts \in 0..MaxAttempts, outcomes \in RetryOutcomes(MaxAttempts + 1),
        backoffBase \in 1..MaxBackoffBase :
       LET returned == withRetry(outcomes, maxAttempts)
       IN  \E randoms \in [DOMAIN returned.sleeps -> Randoms] :
             call' = Some([op |-> "withRetry", outcomes |-> outcomes,
                           maxAttempts |-> maxAttempts, backoffBase |-> backoffBase,
                           returned |-> returned,
                           delays |-> [k \in DOMAIN returned.sleeps |->
                                         getBackoffDelay(returned.sleeps[k], backoffBase,
                                                         randoms[k])]])
  /\ UNCHANGED pureFrame

CallIsRetryableError ==
  /\ call = Null
  /\ \E error \in Errors :
       call' = Some([op |-> "isRetryableError", error |-> error,
                     returned |-> isRetryableError(error)])
  /\ UNCHANGED pureFrame

CallGetBackoffDelay ==
  /\ call = Null
  /\ \E attempt \in 0..MaxBackoffAttempt, base \in 1..MaxBackoffBase, random \in Randoms :
       call' = Some([op |-> "getBackoffDelay", attempt |-> attempt, base |-> base,
                     random |-> random,
                     returned |-> getBackoffDelay(attempt, base, random)])
  /\ UNCHANGED pureFrame

CallValidateChapter ==
  /\ call = Null
  /\ \E pageContent \in Contents :
       call' = Some([op |-> "validateChapter", content |-> pageContent,
                     returned |-> validateChapter(pageContent)])
  /\ UNCHANGED pureFrame

NextPure ==
  \/ CallGetAllChapters
  \/ CallSaveBook
  \/ CallWithRetry
  \/ CallIsRetryableError
  \/ CallGetBackoffDelay
  \/ CallValidateChapter

\* no scrape runs: the page of the pipeline is the one without a TOC
InitPure ==
  /\ InitCheckpoint
  /\ site.toc = Null

SpecPure == InitPure /\ [][NextPure]_vars

(***************************************************************************)
(* The ManifestManager called directly: any sequence of upsertBook and     *)
(* removeBook calls on an empty manifest.  call holds the last call, the   *)
(* number of calls and, for every id, the entry of the latest upsertBook   *)
(* not followed by a removeBook.                                           *)
(***************************************************************************)
manifestFrame == <<site, checkpoints, cache, bookUrls, bookIndex, results, pc, result, book,
                   tracker, remainingChapters, pos, chapterContents, content, run, files>>

ManifestEntries ==
  [id : BookIds, chapterCount : 1..2, status : {"complete", "partial"},
   outputPath : {Str_pdf}]

NoCalls == [op |-> "none", id |-> <<>>, count |-> 0, latest |-> [i \in BookIds |-> Null],
            removed |-> FALSE]

ManifestCalls == IF call = Null THEN NoCalls ELSE call[1]

CallUpsertBook ==
  /\ ManifestCalls.count < MaxManifestCalls
  /\ \E entry \in ManifestEntries :
       /\ manifest' = upsertBook(manifest, entry)
       /\ call' = Some([op |-> "upsertBook", id |-> entry.id,
                        count |-> ManifestCalls.count + 1,
                        latest |-> [ManifestCalls.latest EXCEPT ![entry.id] = Some(entry)],
                        removed |-> FALSE])
  /\ UNCHANGED manifestFrame

CallRemoveBook ==
  /\ ManifestCalls.count < MaxManifestCalls
  /\ \E bookId_ \in BookIds :
       LET returned == removeBook(manifest, bookId_)
       IN  /\ manifest' = IF returned.removed THEN returned.books ELSE manifest
           /\ call' = Some([op |-> "removeBook", id |-> bookId_,
                            count |-> ManifestCalls.count + 1,
                            latest |-> [ManifestCalls.latest EXCEPT ![bookId_] = Null],
                            removed |-> returned.removed])
  /\ UNCHANGED manifestFrame

NextManifest ==
  \/ CallUpsertBook
  \/ CallRemoveBook

SpecManifest == InitPure /\ [][NextManifest]_vars

(***************************************************************************)
(* Properties of one scrapeBook call.                                      *)
(***************************************************************************)
InScrape == pc \notin {"idle", "main"}

TotalChapters == Len(book[1].chapters)

AllIndices == 0..(TotalChapters - 1)

\* the checkpoint file of the current book, as an optional value
Persisted == checkpoints[bookId]

\* the checkpoint the tracker last read back from the file
TrackerCheckpoint == tracker[1].checkpoint[1]

Occurrences(s, x) == Cardinality({k \in DOMAIN s : s[k] = x})

Marked == {run.marks[k][1] : k \in DOMAIN run.marks}

\* C1: a run that starts with no checkpoint, no cache and no manifest entry,
\* and in which nothing fails, ends with every index 0..N-1 in the completed
\* set, a manifest entry of status complete for the book, and the checkpoint
\* file deleted.
C1_FreshRunCompletes ==
  (pc = "done" /\ run.fresh /\ ~run.injected) =>
    /\ book # Null
    /\ Range(TrackerCheckpoint.completedChapters) = AllIndices
    /\ TrackerCheckpoint.failedChapters = <<>>
    /\ getBookEntry(manifest, book[1].id) # Null
    /\ getBookEntry(manifest, book[1].id)[1].status = "complete"
    /\ run.committed = Some("complete")
    /\ Persisted = Null
    /\ result.success

C1_Witness ==
  /\ pc = "done"
  /\ run.fresh
  /\ ~run.injected
  /\ book # Null
  /\ TotalChapters >= 3
  /\ Len(run.fetches) = TotalChapters
  /\ Persisted = Null

\* C2: when the manifest already holds a complete entry for the book id,
\* scrapeBook returns the stored output path at once: no discovery, fetch or
\* render happens and the manifest, the checkpoints and the cache are left
\* as they were.
C2_CompleteBookIsSkipped ==
  [][(pc = "check" /\ getBookEntry(manifest, bookId) # Null
                   /\ getBookEntry(manifest, bookId)[1].status = "complete") =>
       /\ pc' = "done"
       /\ result'.success
       /\ result'.outputPath = Some(getBookEntry(manifest, bookId)[1].outputPath)
       /\ result'.error = Null
       /\ UNCHANGED durable
       /\ run'.discoveries = 0
       /\ run'.fetches = <<>>
       /\ run'.renders = 0
       /\ run'.marks = <<>>]_vars

C2_Witness ==
  /\ pc = "done"
  /\ getBookEntry(manifest, bookId) # Null
  /\ getBookEntry(manifest, bookId)[1].status = "complete"
  /\ result.success
  /\ result.outputPath = Some(getBookEntry(manifest, bookId)[1].outputPath)
  /\ run.discoveries = 0
  /\ run.renders = 0

\* C3: when a checkpoint with completed set C exists, the run starts and
\* fetches only the indices of 0..N-1 outside C; no index of C is started,
\* fetched, validated or marked in the checkpoint.
C3_ResumeSkipsCompleted ==
  (InScrape /\ run.loaded # Null) =>
    LET C == run.loaded[1]
    IN  /\ Range(remainingChapters) = AllIndices \ C
        /\ Range(run.starts) \subseteq AllIndices \ C
        /\ Range(run.fetches) \subseteq AllIndices \ C
        /\ Range(run.validations) \cap C = {}
        /\ Marked \cap C = {}
        /\ (pc \in {"render", "commit", "finalize", "done"} =>
              Range(run.starts) = AllIndices \ C)

C3_Witness ==
  /\ pc = "done"
  /\ run.loaded = Some({0, 1, 3})
  /\ TotalChapters = 5
  /\ run.starts = <<2, 4>>
  /\ run.fetches = <<2, 4>>

\* C4: whatever calls were made on a checkpoint, its completed and failed
\* sets have no index in common.
C4_CompletedAndFailedDisjoint ==
  \A id \in BookIds :
    checkpoints[id] # Null =>
      Range(checkpoints[id][1].completedChapters)
        \cap Range(checkpoints[id][1].failedChapters) = {}

\* C5: while the checkpoint exists a completed index stays completed through
\* every later call for any index; an index that is marked complete leaves
\* the failed set; a completed index never enters the failed set.
C5_CompletedIsPermanent ==
  [][\A id \in BookIds, i \in Indices \cup ApiIndices :
       (checkpoints[id] # Null /\ checkpoints'[id] # Null) =>
         LET before == checkpoints[id][1]
             after  == checkpoints'[id][1]
         IN  /\ Includes(before.completedChapters, i)
                  => Includes(after.completedChapters, i)
             /\ (/\ Includes(before.failedChapters, i)
                 /\ ~Includes(before.completedChapters, i)
                 /\ Includes(after.completedChapters, i))
                  => ~Includes(after.failedChapters, i)
             /\ (/\ Includes(before.completedChapters, i)
                 /\ ~Includes(before.failedChapters, i))
                  => ~Includes(after.failedChapters, i)]_vars

\* C6: finalize deletes the checkpoint only when every index 0..N-1 of the
\* current run is completed, whatever run the checkpoint was loaded from;
\* otherwise the checkpoint stays in place with status in_progress.
C6_DeletedOnlyWhenAllCompleted ==
  (pc = "done" /\ run.committed # Null) =>
    /\ Persisted = Null
         => AllIndices \subseteq Range(TrackerCheckpoint.completedChapters)
    /\ ~(AllIndices \subseteq Range(TrackerCheckpoint.completedChapters))
         => (Persisted # Null /\ Persisted[1].status = "in_progress")

\* C7: a run that commits a manifest entry of status partial ends with the
\* checkpoint still in place.
C7_PartialKeepsCheckpoint ==
  (pc = "done" /\ run.committed = Some("partial")) => Persisted # Null

\* C8: a discovery that yields no chapter fails the run before any chapter
\* work: nothing is rendered, no manifest entry is written, the result is an
\* error, and no manifest entry makes a later run skip the book.
C8_NoChaptersIsAnError ==
  /\ (InScrape /\ book # Null /\ TotalChapters = 0) =>
       /\ run.renders = 0
       /\ run.committed = Null
       /\ getBookEntry(manifest, book[1].id) = Null
       /\ pc = "done" => (~result.success /\ result.error # Null)
  /\ \A k \in DOMAIN manifest :
       manifest[k].status = "complete" => manifest[k].chapterCount > 0

\* C9: a chapter whose fetch or validation fails is recorded in the failed
\* set of the checkpoint, every later chapter of the pass is still started,
\* and the failure is not the error of the run.
C9_FailureDoesNotAbort ==
  (InScrape /\ tracker # Null) =>
    \A i \in Indices :
      run.outcome[i] \in {"fetch", "validation"} =>
        /\ (pc \notin {"fail", "done"} \/ (pc = "fail" /\ chapterIndex # i))
             => (Persisted # Null /\ Includes(Persisted[1].failedChapters, i))
        /\ pc \in {"render", "commit", "finalize", "done"}
             => \A j \in Range(remainingChapters) :
                  j > i => j \in Range(run.starts)
        /\ pc = "done" => result.error \in {Null, Some("render")}

C9_Witness ==
  /\ pc = "render"
  /\ TotalChapters >= 4
  /\ run.outcome[0] = "fetch"
  /\ run.outcome[1] = "validation"
  /\ run.outcome[2] = "ok"
  /\ run.starts = remainingChapters
  /\ Persisted[1].failedChapters = <<0, 1>>

\* C10: in a run on a new checkpoint where one chapter fails validation and
\* every other chapter succeeds, that chapter is fetched and validated once,
\* nothing of it is cached, it is the only failed index, the others are
\* completed, the manifest entry is partial and the checkpoint is retained.
C10_InvalidContentIsNotRetried ==
  (pc = "done" /\ book # Null /\ tracker # Null /\ run.loaded = Null
               /\ result.error = Null) =>
    \A i \in AllIndices :
      (/\ run.outcome[i] = "validation"
       /\ \A j \in AllIndices \ {i} : run.outcome[j] \in {"ok", "hit"}) =>
        /\ Occurrences(run.fetches, i) = 1
        /\ Occurrences(run.validations, i) = 1
        /\ getChapter(cache, book[1].id, i) = Null
        /\ i \notin DOMAIN chapterContents
        /\ Persisted # Null
        /\ Persisted[1].failedChapters = <<i>>
        /\ Range(Persisted[1].completedChapters) = AllIndices \ {i}
        /\ Persisted[1].status = "in_progress"
        /\ run.committed = Some("partial")
        /\ getBookEntry(manifest, book[1].id)[1].status = "partial"

C10_Witness ==
  /\ pc = "done"
  /\ book # Null
  /\ run.loaded = Null
  /\ result.error = Null
  /\ TotalChapters = 3
  /\ run.outcome[0] = "ok"
  /\ run.outcome[1] = "validation"
  /\ run.outcome[2] = "ok"
  /\ run.fetches = <<0, 1, 2>>
  /\ Persisted # Null
  /\ Persisted[1].failedChapters = <<1>>
  /\ run.committed = Some("partial")

\* page.goto throws a timeout on its first k attempts and then succeeds
TimeoutsThenSuccess(k) ==
  [j \in 1..DefaultMaxRetries |-> IF j <= k THEN Some(TimeoutError) ELSE Null]

\* C11: a chapter whose navigation times out on its first k attempts,
\* k < maxAttempts, and then succeeds with valid content is fetched in k + 1
\* attempts, is completed and is not failed; when every chapter of a run on
\* a new checkpoint succeeds, the completed set is 0..N-1 and the manifest
\* entry is complete.
C11_RetriedChapterCompletes ==
  (InScrape /\ run.nav # Null) =>
    \A k \in 1..(DefaultMaxRetries - 1) :
      LET n == run.nav[1]
      IN  n.outcomes = TimeoutsThenSuccess(k) =>
            /\ n.calls = k + 1
            /\ (n.page # Null /\ validateChapter(n.page[1]).isValid) =>
                 /\ run.outcome[n.index] = "ok"
                 /\ pc # "fail"
                 /\ <<n.index, "failed">> \notin Range(run.marks)
                 /\ pc \in {"delay", "loop", "render", "commit", "finalize", "done"} =>
                      /\ Includes(TrackerCheckpoint.completedChapters, n.index)
                      /\ ~Includes(TrackerCheckpoint.failedChapters, n.index)
                 /\ (/\ pc = "done"
                     /\ result.error = Null
                     /\ run.loaded = Null
                     /\ \A j \in AllIndices : run.outcome[j] \in {"ok", "hit"}) =>
                      /\ Range(TrackerCheckpoint.completedChapters) = AllIndices
                      /\ run.committed = Some("complete")

C11_Witness ==
  /\ pc = "done"
  /\ book # Null
  /\ TotalChapters = 3
  /\ run.nav # Null
  /\ run.nav[1].index = 2
  /\ run.nav[1].outcomes = TimeoutsThenSuccess(2)
  /\ run.nav[1].calls = 3
  /\ run.outcome[2] = "ok"
  /\ TrackerCheckpoint.completedChapters = <<0, 1, 2>>
  /\ TrackerCheckpoint.failedChapters = <<>>
  /\ run.committed = Some("complete")
  /\ Persisted = Null

\* C12: getChapter after saveChapter of the same key returns the content
\* that was saved with the digest of that content as hash, whatever hash the
\* caller passed; getChapter after the stored hash was altered returns null.
C12_CacheRoundTrip ==
  (call # Null /\ call[1].op = "getChapter" /\ call[1].after # Null
               /\ call[1].after[1].chapterIndex = call[1].chapterIndex) =>
    LET written == call[1].after[1]
    IN  /\ written.op = "saveChapter" =>
             /\ call[1].returned # Null
             /\ call[1].returned[1].chapterIndex = written.chapterIndex
             /\ call[1].returned[1].content = written.content
             /\ call[1].returned[1].hash = calculateHash(written.content)
        /\ written.op = "alterHash" => call[1].returned = Null

C12_Witness ==
  /\ call # Null
  /\ call[1].op = "getChapter"
  /\ call[1].after # Null
  /\ call[1].after[1].op = "saveChapter"
  /\ call[1].after[1].chapterIndex = call[1].chapterIndex
  /\ call[1].after[1].content = GoodContent
  /\ call[1].after[1].hash = calculateHash(BotContent)
  /\ call[1].returned # Null
  /\ call[1].returned[1].hash = calculateHash(GoodContent)

\* the file of a cache record is missing, does not parse or fails the
\* integrity check
Damaged(id, i) ==
  IF cache[id][i] = Null THEN TRUE
  ELSE IF cache[id][i][1] = Truncated THEN TRUE
  ELSE calculateHash(cache[id][i][1].content) # cache[id][i][1].hash

\* C13: getChapter returns a miss for a record that is missing, unparsable
\* or fails the digest check; in the chapter loop a miss leads to the fetch
\* and a successful fetch overwrites the record, after which getChapter of
\* that key is a hit with the fetched content.
C13_CacheMissIsHealed ==
  /\ \A id \in BookIds, i \in Indices :
       Damaged(id, i) <=> getChapter(cache, id, i) = Null
  /\ (InScrape /\ book # Null) =>
       /\ \A i \in Indices : run.outcome[i] = "hit" => ~Damaged(book[1].id, i)
       /\ pc = "fetch" => Damaged(book[1].id, chapterIndex)
       /\ pc = "cachesave" => Damaged(book[1].id, chapterIndex)
       /\ (pc \in {"complete", "delay"} /\ run.outcome[chapterIndex] = "ok") =>
            /\ getChapter(cache, book[1].id, chapterIndex) # Null
            /\ pc = "complete" =>
                 getChapter(cache, book[1].id, chapterIndex)[1].content = content[1]
            /\ pc = "delay" =>
                 getChapter(cache, book[1].id, chapterIndex)[1].content
                   = chapterContents[chapterIndex]

C13_Witness ==
  /\ pc = "delay"
  /\ call # Null
  /\ call[1].op \in {"alterHash", "truncate"}
  /\ call[1].bookId = book[1].id
  /\ call[1].chapterIndex = chapterIndex
  /\ run.outcome[chapterIndex] = "ok"
  /\ getChapter(cache, book[1].id, chapterIndex) # Null

\* C14: at every step of a write, and after a crash at any step, the
\* reader of the record gets the whole previous record or the whole new one;
\* a valid cache entry stays a hit when the write over it crashes before the
\* rename.
C14_WritesAreAtomic ==
  /\ \A store \in Stores : files[PathOf(store)] # Some(Truncated)
  /\ call # Null =>
       LET w    == call[1]
           seen == readRecord(w.store, files[PathOf(w.store)])
       IN  /\ seen \in {w.previous, readRecord(w.store, Some(w.new))}
           /\ w.phase \in {"called", "writing", "written"} => seen = w.previous
           /\ w.phase = "renamed" => seen = readRecord(w.store, Some(w.new))

C14_Witness ==
  /\ call # Null
  /\ call[1].store = "cache"
  /\ call[1].crashed
  /\ call[1].phase = "writing"
  /\ call[1].previous # Null
  /\ call[1].previous[1].content # call[1].new.content
  /\ files[tempPath(PathOf("cache"))] = Some(Truncated)
  /\ readRecord("cache", files[PathOf("cache")]) = call[1].previous


(***************************************************************************)
(* Properties of the retry module and the validator.                       *)
(***************************************************************************)
Called(op) == call # Null /\ call[1].op = op

\* C15: withRetry invokes fn at most maxAttempts times; every invocation
\* before the last one threw a retryable error and was followed by one
\* backoff sleep; the last invocation either returned (and withRetry returns
\* with no further invocation), or threw the error withRetry rethrows, which
\* the classifier reports non-retryable or which the last allowed attempt
\* threw, and no sleep follows it.
C15_RetryContract ==
  Called("withRetry") =>
    LET c == call[1]
        r == c.returned
        o == c.outcomes
    IN  /\ r.calls <= c.maxAttempts
        /\ \A k \in 1..(r.calls - 1) : o[k] # Null /\ isRetryableError(o[k][1])
        /\ r.ok => /\ r.calls >= 1
                   /\ o[r.calls] = Null
                   /\ r.error = Null
        /\ (~r.ok /\ c.maxAttempts >= 1) =>
             /\ r.calls >= 1
             /\ o[r.calls] # Null
             /\ r.error = o[r.calls]
             /\ ~isRetryableError(o[r.calls][1]) \/ r.calls = c.maxAttempts
        /\ r.sleeps = [k \in 1..(IF r.calls = 0 THEN 0 ELSE r.calls - 1) |-> k - 1]
        /\ Len(c.delays) = Len(r.sleeps)

\* a retryable error thrown by each of the MaxAttempts allowed attempts
C15_Witness ==
  /\ Called("withRetry")
  /\ call[1].maxAttempts = MaxAttempts
  /\ ~call[1].returned.ok
  /\ call[1].returned.calls = MaxAttempts
  /\ call[1].returned.error = Some(TimeoutError)
  /\ Len(call[1].delays) = MaxAttempts - 1


C17_WaitIsBaseToTheFailureNumber ==
  Called("withRetry") =>
    LET c == call[1]
    IN  \A k \in DOMAIN c.delays :
          5 * c.delays[k] \in (4000 * Pow(c.backoffBase, k))..(6000 * Pow(c.backoffBase, k))


\* the classes of errors named retryable: network-class failures (connection
\* reset or refused, DNS, timeout), navigation timeouts, HTTP 429 and 5xx
\* other than 501; never an error with status 501 or 4xx other than 429, a
\* validation failure or an authentication failure
NamedRetryable(error) ==
  /\ error.status # 501
  /\ ~(error.status >= 400 /\ error.status < 500 /\ error.status # 429)
  /\ error.message \cap {"content validation failed", "login failed"} = {}
  /\ \/ error.name \in {"networkerror", "timeouterror"}
     \/ error.message \cap {"network", "econnreset", "econnrefused", "etimedout",
                            "socket hang up", "enotfound", "timeout"} # {}
     \/ error.status = 429
     \/ error.status >= 500 /\ error.status < 600

\* C18: isRetryableError returns true exactly for network-class failures
\* (connection reset/refused, DNS, timeout), navigation timeouts, HTTP 429
\* and HTTP 5xx other than 501, and false for every other error, in
\* particular for every error with status 501 or 4xx other than 429 and for
\* every validation or authentication failure.
C18_ClassifierMatchesNamedClasses ==
  Called("isRetryableError") =>
    (call[1].returned <=> NamedRetryable(call[1].error))


\* the tokens of more than one character of a content
WordsOf(pageContent) == pageContent.tokens - pageContent.singleChars

\* C19: for a content that is not empty and matches no error-page or
\* anti-automation signature, validateChapter returns isValid = false when
\* the number of tokens of more than one character is 49 or less, isValid =
\* true with a warning and no error when it is 50 to 99, and isValid = true
\* with no warning when it is 100 or more.
C19_WordCountBoundaries ==
  (/\ Called("validateChapter")
   /\ ~call[1].content.empty
   /\ ~call[1].content.errorPage
   /\ ~call[1].content.antiBot) =>
    LET words == WordsOf(call[1].content)
        r     == call[1].returned
    IN  /\ words <= 49 => ~r.isValid
        /\ (words >= 50 /\ words <= 99) =>
             (r.isValid /\ Len(r.warnings) > 0 /\ Len(r.errors) = 0)
        /\ words >= 100 => (r.isValid /\ Len(r.warnings) = 0)

\* 51 tokens of which one is a single character: valid, with a warning
C19_Witness ==
  /\ Called("validateChapter")
  /\ ~call[1].content.empty
  /\ ~call[1].content.errorPage
  /\ ~call[1].content.antiBot
  /\ call[1].content.tokens = 51
  /\ call[1].content.singleChars = 1
  /\ call[1].returned.isValid
  /\ Len(call[1].returned.warnings) = 1

\* C20: validateChapter returns isValid = true exactly when no fatal rule
\* fired (empty content, error-page signature, anti-automation signature,
\* fewer than 50 words), whatever the warnings; the metadata (wordCount,
\* hasImages, hasCodeBlocks) is computed from the content and returned for
\* valid and invalid content alike.
C20_ValidIffNoFatalRule ==
  Called("validateChapter") =>
    LET c == call[1].content
        r == call[1].returned
    IN  /\ r.isValid <=> ~(c.empty \/ c.errorPage \/ c.antiBot \/ WordsOf(c) < 50)
        /\ r.isValid <=> (Len(r.errors) = 0)
        /\ r.metadata = [wordCount     |-> WordsOf(c),
                         hasImages     |-> (c.images > 0),
                         hasCodeBlocks |-> (c.codeBlocks > 0)]

\* a valid content with a warning, with its word count in the metadata
C20_Witness ==
  /\ Called("validateChapter")
  /\ call[1].returned.isValid
  /\ Len(call[1].returned.warnings) > 0
  /\ call[1].returned.metadata.wordCount = 99
  /\ call[1].returned.metadata.hasImages


(***************************************************************************)
(* Properties of the chapter loop, of the batch and of discovery.          *)
(***************************************************************************)
InAttempt == pc \in {"started", "fetch", "cachesave", "complete", "fail"}

\* C26: within one pass the chapters are attempted in strictly increasing
\* index order, so each index at most once and none that the loaded
\* checkpoint lists as completed; an attempt has written its completed or
\* failed mark before the next attempt starts.
C26_AttemptsInIncreasingOrder ==
  /\ \A j, k \in DOMAIN run.starts : j < k => run.starts[j] < run.starts[k]
  /\ run.loaded # Null => \A k \in DOMAIN run.starts : run.starts[k] \notin run.loaded[1]
  /\ \A k \in DOMAIN run.marks : k <= Len(run.starts) /\ run.marks[k][1] = run.starts[k]
  /\ Len(run.marks) = IF InAttempt THEN Len(run.starts) - 1 ELSE Len(run.starts)

\* three attempts, the second of which failed, after a pass over a document
\* whose checkpoint listed a completed chapter
C26_Witness ==
  /\ pc = "render"
  /\ run.loaded # Null
  /\ run.loaded[1] # {}
  /\ Len(run.starts) = 3
  /\ run.marks[2][2] = "failed"
  /\ run.marks[3][2] = "completed"


\* C27: when the attempt of a chapter begins (startChapter is done, the cache
\* lookup and the fetch are still to come), the inter-request delay has been
\* slept since the previous attempt of the pass ended, whether that attempt
\* ended completed or failed.
C27_DelayAfterEveryAttempt ==
  pc \in {"started", "fetch"} => run.rested


\* C25: when the cache holds a valid record of the chapter that has been
\* started, the lookup takes its content and goes straight to the
\* completion; on that path the chapter is neither fetched nor validated,
\* no store is written before the completion, and the completion puts the
\* cached content into chapterContents and the index into the completed set
\* of the persisted checkpoint without touching the cache.
C25_CacheHitSkipsFetch ==
  [][/\ (pc = "started" /\ ~Damaged(book[1].id, chapterIndex)) =>
          /\ pc' = "complete"
          /\ content' = Some(cache[book[1].id][chapterIndex][1].content)
          /\ run'.outcome[chapterIndex] = "hit"
          /\ run'.fetches = run.fetches
          /\ run'.validations = run.validations
          /\ durable' = durable
     /\ (pc = "complete" /\ run.outcome[chapterIndex] = "hit") =>
          /\ pc' = "delay"
          /\ \A k \in DOMAIN run.fetches : run.fetches[k] # chapterIndex
          /\ \A k \in DOMAIN run.validations : run.validations[k] # chapterIndex
          /\ cache' = cache
          /\ chapterContents'[chapterIndex] = cache[book[1].id][chapterIndex][1].content
          /\ Includes(checkpoints'[bookId][1].completedChapters, chapterIndex)
          /\ run'.marks = Append(run.marks, <<chapterIndex, "completed">>)]_vars

\* the second chapter of a pass was found in the cache and is completed
C25_Witness ==
  /\ pc = "delay"
  /\ pos = 2
  /\ run.outcome[chapterIndex] = "hit"
  /\ run.fetches = <<0>>
  /\ ~Damaged(book[1].id, chapterIndex)
  /\ Includes(Persisted[1].completedChapters, chapterIndex)


\* C23: when the renderer throws, the document run fails (no success, the
\* error in the result), the renderer has been called once, the step writes
\* neither the manifest nor the checkpoint, no manifest entry is committed by
\* the run and the checkpoint file of the document is still there.
C23_RenderFailureIsFatal ==
  /\ [](pc = "done" /\ result.error = Some("render") =>
          /\ ~result.success
          /\ result.outputPath = Null
          /\ run.renders = 1
          /\ run.committed = Null
          /\ ~run.deleted
          /\ Persisted # Null)
  /\ [][(pc = "render" /\ result'.error = Some("render")) =>
          /\ pc' = "done"
          /\ manifest' = manifest
          /\ checkpoints' = checkpoints]_vars

\* the renderer failed for a document whose chapters are all completed
C23_Witness ==
  /\ pc = "done"
  /\ result.error = Some("render")
  /\ book # Null
  /\ TotalChapters = 2
  /\ Persisted # Null
  /\ Persisted[1].completedChapters = <<0, 1>>
  /\ manifest = <<>>


\* C21: once a durable write of the checkpoint, of a cache entry or of the
\* manifest has thrown during the run of a document, the job is over: no
\* chapter is marked failed for it, no further chapter is started or
\* fetched, nothing is rendered or committed, and scrapeBook is not called
\* for the next document of the batch.
C21_WriteFailureAbortsJob ==
  [][run.lost # <<>> =>
       /\ run'.marks = run.marks
       /\ run'.starts = run.starts
       /\ run'.fetches = run.fetches
       /\ run'.renders = run.renders
       /\ run'.committed = run.committed
       /\ bookIndex' = bookIndex]_vars


DocumentFailure == {Some("getBook"), Some("render")}

\* C22: a document whose discovery or render throws ends with the error in
\* its own result, which main appends to the results without writing any
\* store; main then calls scrapeBook for the next document whatever the
\* earlier results are, and holds one result per document taken so far.
C22_DocumentFailureDoesNotAbort ==
  /\ [](/\ pc = "main" => Len(results) = bookIndex
        /\ (pc = "main" /\ bookIndex < Len(bookUrls)) => ENABLED CallScrapeBook
        /\ (pc = "done" /\ result.error \in DocumentFailure) => ~result.success)
  /\ [][(pc = "done" /\ result.error \in DocumentFailure /\ pc' # "crashed") =>
          /\ pc' = "main"
          /\ results' = Append(results, result)
          /\ bookIndex' = bookIndex
          /\ durable' = durable]_vars

\* discovery failed for the first document and the second one is complete
C22_Witness ==
  /\ pc = "main"
  /\ Len(results) = 2
  /\ results[1].error = Some("getBook")
  /\ ~results[1].success
  /\ results[2].success
  /\ results[2].error = Null
  /\ getBookEntry(manifest, BookIdFromUrl(UrlOther)) # Null
  /\ getBookEntry(manifest, BookIdFromUrl(UrlSlash)) = Null


\* the chapter is between its startChapter and the end of its fetch, in a
\* live process or in one killed there
BeforeFetchEnds ==
  \/ pc \in {"started", "fetch"}
  \/ pc = "crashed" /\ run.crashedAt \in {"started", "fetch"}

\* C24: from the cache lookup to the end of the fetch of a chapter, also in
\* a process killed there, the checkpoint file names the chapter as
\* currentChapter and does not list it as completed; the lookup, the fetch
\* and the cache write leave the checkpoint file alone, and a chapter is
\* marked completed or failed only from the positions after the fetch.
C24_CheckpointWritesAreOrdered ==
  /\ [](BeforeFetchEnds =>
          /\ Persisted # Null
          /\ Persisted[1].currentChapter = chapterIndex
          /\ ~Includes(Persisted[1].completedChapters, chapterIndex)
          /\ run.starts[Len(run.starts)] = chapterIndex)
  /\ [][/\ pc \in {"started", "fetch", "cachesave"} => checkpoints' = checkpoints
        /\ Len(run'.fetches) > Len(run.fetches) => pc = "fetch"
        /\ Len(run'.marks) > Len(run.marks) =>
             /\ pc \in {"complete", "fail"}
             /\ run'.fetches = run.fetches
             /\ run'.marks = Append(run.marks, run'.marks[Len(run'.marks)])
             /\ run'.marks[Len(run'.marks)][1] = chapterIndex]_vars

\* killed during the fetch of chapter 1, after chapter 0 was completed
C24_Witness ==
  /\ pc = "crashed"
  /\ run.crashedAt = "fetch"
  /\ chapterIndex = 1
  /\ Persisted # Null
  /\ Persisted[1].currentChapter = 1
  /\ Persisted[1].completedChapters = <<0>>
  /\ run.marks = << <<0, "completed">> >>


(***************************************************************************)
(* Properties of one getAllChapters call.                                  *)
(***************************************************************************)
Discovered == call # Null /\ call[1].op = "getAllChapters"

UrlsOf(chapters) == [k \in DOMAIN chapters |-> chapters[k].url]

Count(seq, x) == Cardinality({k \in DOMAIN seq : seq[k] = x})

\* C28: the chapters discovery returns have pairwise different locators, and
\* the chapter at position i (from 0) has index i.
C28_DiscoveryHasNoDuplicates ==
  Discovered =>
    LET chapters == call[1].returned
    IN  /\ \A i, j \in DOMAIN chapters : i # j => chapters[i].url # chapters[j].url
        /\ \A i \in DOMAIN chapters : chapters[i].index = i - 1

\* the part of C28 about the indices alone
C28_IndicesArePositions ==
  Discovered => \A i \in DOMAIN call[1].returned : call[1].returned[i].index = i - 1

\* the part of C28 about the probe pass alone: a locator the TOC lists once
\* is returned once
C28_ProbeAddsNoListedLocator ==
  Discovered =>
    \A u \in TocLocators :
      Count(UrlsOf(call[1].listed), u) = 1 => Count(UrlsOf(call[1].returned), u) = 1

FrontMatter(url) == url.name \in {"index", "titlepage", "front-en", "copy", "foreword"}

BodyChapter(url) == url.name = "ch"

BackMatter(url) == url.name \in {"author", "colophon"}

Recognized(url) == FrontMatter(url) \/ BodyChapter(url) \/ BackMatter(url) \/ url.name = "part"

\* C29: in the sequence discovery returns from a table of contents and the
\* probes, no body chapter or back-matter file precedes a front-matter file,
\* no back-matter file precedes a body chapter, the numbers of the body
\* chapters never decrease, no file of unrecognized name precedes a
\* recognized one, and the unrecognized files are in the order of the TOC.
C29_StructuralOrder ==
  (Discovered /\ call[1].site.toc # Null) =>
    LET urls == UrlsOf(call[1].returned)
    IN  /\ \A i, j \in DOMAIN urls : i < j =>
             /\ FrontMatter(urls[j]) => ~BodyChapter(urls[i]) /\ ~BackMatter(urls[i])
             /\ BodyChapter(urls[j]) => ~BackMatter(urls[i])
             /\ (BodyChapter(urls[i]) /\ BodyChapter(urls[j])) => urls[i].num <= urls[j].num
             /\ Recognized(urls[j]) => Recognized(urls[i])
        /\ SelectSeq(urls, LAMBDA u : ~Recognized(u))
             = SelectSeq(call[1].site.toc[1], LAMBDA u : ~Recognized(u))

\* the TOC links appendix, preface and author, and ch00 and ch01 answer
C29_Witness ==
  /\ Discovered
  /\ call[1].site.toc = Some(<<Loc("appendix", 0), Loc("preface", 0), Loc("author", 0)>>)
  /\ UrlsOf(call[1].returned)
       = <<Loc("ch", 0), Loc("ch", 1), Loc("author", 0), Loc("appendix", 0),
           Loc("preface", 0)>>

\* C30: the probe loop requests at most ProbeLimit + 1 candidate numbers,
\* increasing within 0..ProbeLimit; only the last request may fail; no
\* request is for a locator the TOC listed; and the result holds the TOC's
\* chapters as listed plus one chapter per request that answered.
C30_ProbePassIsBounded ==
  (Discovered /\ call[1].site.toc # Null) =>
    LET probes == call[1].probes
        listed == UrlsOf(call[1].listed)
        served == call[1].site.served
        urls   == UrlsOf(call[1].returned)
    IN  /\ Len(probes) <= ProbeLimit + 1
        /\ \A k \in DOMAIN probes : probes[k] \in 0..ProbeLimit
        /\ \A k \in 1..(Len(probes) - 1) :
             probes[k] < probes[k + 1] /\ probes[k] \in served
        /\ \A k \in DOMAIN probes : Count(listed, Loc("ch", probes[k])) = 0
        /\ \A n \in 0..ProbeLimit :
             (Count(listed, Loc("ch", n)) = 0 /\ n \notin Range(probes)) =>
               \E m \in Range(probes) : m < n /\ m \notin served
        /\ \A u \in Range(urls) \cup Range(listed) :
             Count(urls, u) =
               IF Count(listed, u) > 0 THEN Count(listed, u)
               ELSE IF u.name = "ch" /\ u.num \in Range(probes) \cap served THEN 1
               ELSE 0
        /\ Len(urls) = Len(listed) + Cardinality(Range(probes) \cap served)

\* the TOC lists ch01; ch00 and ch01 answer: ch00 is requested and added,
\* ch01 skipped, the request for ch02 fails and ends the loop
C30_Witness ==
  /\ Discovered
  /\ call[1].site.toc = Some(<<Loc("ch", 1)>>)
  /\ call[1].site.served = {0, 1}
  /\ call[1].probes = <<0, 2>>
  /\ UrlsOf(call[1].returned) = <<Loc("ch", 0), Loc("ch", 1)>>

\* every candidate number answers: the loop ends at the limit
C30_LimitReached ==
  /\ Discovered
  /\ call[1].site.toc = Some(<<>>)
  /\ Len(call[1].probes) = ProbeLimit + 1
  /\ Len(call[1].returned) = ProbeLimit + 1


\* C31: a discovery whose listing pass gave no chapter returns no chapter
\* only after the probe loop has requested at least one candidate.
C31_ProbeBeforeGivingUp ==
  (Discovered /\ call[1].listed = <<>> /\ call[1].returned = <<>>) =>
    call[1].probes # <<>>

\* the part of C31 for a TOC element that holds no chapter link: the probe
\* loop requests ch00
C31_EmptyTocIsProbed ==
  (Discovered /\ call[1].site.toc = Some(<<>>)) =>
    (call[1].probes # <<>> /\ call[1].probes[1] = 0)


(***************************************************************************)
(* Properties of the ManifestManager.                                      *)
(***************************************************************************)
\* C32: after any upsertBook and removeBook calls on an empty manifest, no
\* two entries have the same id, getBook gives for every id the entry of
\* the latest upsertBook (none after a removeBook, or when there was no
\* upsertBook), and an upsertBook changes no entry of another id.
C32_OneEntryPerId ==
  /\ [](/\ \A i, j \in DOMAIN manifest : i # j => manifest[i].id # manifest[j].id
        /\ \A id \in BookIds : getBookEntry(manifest, id) = ManifestCalls.latest[id])
  /\ [][\A id \in BookIds :
          (call'[1].op = "upsertBook" /\ call'[1].id # id) =>
            getBookEntry(manifest', id) = getBookEntry(manifest, id)]_vars

\* four calls have left two entries; the last call was an upsertBook for
\* the id of the first entry, which it replaced in place
C32_Witness ==
  /\ call # Null
  /\ call[1].count = 4
  /\ call[1].op = "upsertBook"
  /\ Len(manifest) = 2
  /\ manifest[1].id = call[1].id
  /\ manifest[1] = call[1].latest[call[1].id][1]
  /\ manifest[2].id # call[1].id


(***************************************************************************)
(* Properties of the stores during a run.                                  *)
(***************************************************************************)
CompletedIn(checkpoint) ==
  IF checkpoint = Null THEN {} ELSE Range(checkpoint[1].completedChapters)

\* C33: while a document is scraped, and in a process killed then, every
\* index the checkpoint file lists as completed has an entry in the cache
\* of the document; the entry was there before the index was listed; and
\* the chapter between its startChapter and the end of its cache write is
\* not listed.
C33_CompletedChaptersAreCached ==
  /\ [](book # Null =>
          /\ \A i \in CompletedIn(Persisted) : cache[book[1].id][i] # Null
          /\ (pc \in {"started", "fetch", "cachesave"}
              \/ (pc = "crashed" /\ run.crashedAt \in {"started", "fetch", "cachesave"}))
               => chapterIndex \notin CompletedIn(Persisted))
  /\ [][(book # Null /\ book' = book) =>
          \A i \in CompletedIn(Persisted') \ CompletedIn(Persisted) :
            cache[book[1].id][i] # Null /\ cache'[book[1].id][i] = cache[book[1].id][i]]_vars


\* killed during the cache write of chapter 1, after chapter 0 was cached
\* and marked completed
C33_Witness ==
  /\ pc = "crashed"
  /\ run.crashedAt = "cachesave"
  /\ chapterIndex = 1
  /\ CompletedIn(Persisted) = {0}
  /\ cache[book[1].id][0] # Null
  /\ cache[book[1].id][1] = Null


\* C34: a checkpoint file is deleted only in a step that finds the manifest
\* entry of the document and leaves the manifest alone, and once the run has
\* deleted the checkpoint, also in a process killed later, the manifest holds
\* an entry of the document.
C34_ManifestBeforeCheckpointDeletion ==
  /\ []((book # Null /\ run.deleted) => getBookEntry(manifest, book[1].id) # Null)
  /\ [][\A id \in BookIds :
          (checkpoints[id] # Null /\ checkpoints'[id] = Null) =>
            /\ book # Null
            /\ id = bookId
            /\ getBookEntry(manifest, book[1].id) # Null
            /\ manifest' = manifest]_vars

\* killed between the manifest write and finalize: the entry is there and
\* the checkpoint, with every chapter completed, still is
C34_Witness ==
  /\ pc = "crashed"
  /\ run.crashedAt = "finalize"
  /\ getBookEntry(manifest, book[1].id) # Null
  /\ getBookEntry(manifest, book[1].id)[1].status = "complete"
  /\ Persisted # Null
  /\ CompletedIn(Persisted) = 0..(Len(book[1].chapters) - 1)
  /\ Len(book[1].chapters) = 2

\* the checkpoint deleted, the entry in the manifest
C34_Deleted ==
  /\ pc = "done"
  /\ run.deleted
  /\ Persisted = Null
  /\ getBookEntry(manifest, book[1].id) # Null


\* C35: a scrape changes the cache only in the cache write of the chapter
\* loop, which stores, under the chapter's index, the content the validator
\* accepted in the fetch just before; and the content a cache hit hands to
\* the completion is content the validator accepts.
C35_CachedContentWasValidated ==
  /\ [][(pc # "idle" /\ cache' # cache) =>
          /\ pc = "cachesave"
          /\ validateChapter(content[1]).isValid
          /\ run.validations # <<>>
          /\ run.validations[Len(run.validations)] = chapterIndex
          /\ run.outcome[chapterIndex] = "ok"
          /\ cache' = [cache EXCEPT ![book[1].id][chapterIndex] =
                         cache'[book[1].id][chapterIndex]]
          /\ cache'[book[1].id][chapterIndex][1].content = content[1]]_vars
  /\ []((pc = "complete" /\ run.outcome[chapterIndex] = "hit") =>
          validateChapter(content[1]).isValid)

\* chapter 0 failed validation and has no cache entry; chapter 1 was
\* validated and its content is in the cache
C35_Witness ==
  /\ pc = "complete"
  /\ chapterIndex = 1
  /\ run.outcome[0] = "validation"
  /\ run.outcome[1] = "ok"
  /\ cache[book[1].id][0] = Null
  /\ cache[book[1].id][1] # Null
  /\ ~Damaged(book[1].id, 1)
  /\ cache[book[1].id][1][1].content = GoodContent


(***************************************************************************)
(* Properties of the ids of a document.                                    *)
(***************************************************************************)
\* C36: the id scrapeBook looks the manifest up and keys the checkpoint
\* with is the id of the Book that getBook returns, and a run that starts
\* when the manifest holds a complete entry written for its URL finds it.
C36_OneIdPerDocument ==
  /\ book # Null => book[1].id = bookId
  /\ pc = "check" =>
       (AlreadyScraped(getBookEntry(manifest, BookIdFromUrl(bookUrl)))
          => AlreadyScraped(getBookEntry(manifest, bookId)))

\* the part of C36 about the ids alone
C36_BookIdIsLookupId == book # Null => book[1].id = bookId

\* the part of C36 about the next run alone
C36_CompleteIsFound ==
  pc = "check" =>
    (AlreadyScraped(getBookEntry(manifest, BookIdFromUrl(bookUrl)))
       => AlreadyScraped(getBookEntry(manifest, bookId)))

\* the part of C36 for a URL with a trailing slash and a numeric id segment
C36_SlashNumericAgree ==
  (book # Null /\ bookUrl = UrlSlash) => book[1].id = bookId


(***************************************************************************)
(* Properties of one saveBook call.                                        *)
(***************************************************************************)
\* C37: the outputPath of the manifest entry saveBook returns is the path of
\* the file generateBookPDF wrote.
C37_OutputPathIsTheArtifact ==
  (call # Null /\ call[1].op = "saveBook") =>
    call[1].returned.outputPath = call[1].written

\* the two paths are in the same directory
C37_SameDirectory ==
  (call # Null /\ call[1].op = "saveBook") =>
    /\ Len(call[1].returned.outputPath) = 2
    /\ Len(call[1].written) = 2
    /\ call[1].returned.outputPath[1] = call[1].written[1]


(***************************************************************************)
(* Properties of withRetry under the accepted configurations.              *)
(***************************************************************************)
\* C38: for maxAttempts >= 0 and backoffBase >= 1, withRetry calls fn at
\* least once, and the error it throws is the one of the last call of fn.
C38_OperationIsInvoked ==
  (call # Null /\ call[1].op = "withRetry"
     /\ call[1].maxAttempts >= 0 /\ call[1].backoffBase >= 1) =>
    /\ call[1].returned.calls >= 1
    /\ ~call[1].returned.ok =>
         call[1].returned.error = call[1].outcomes[call[1].returned.calls]

\* the part of C38 for maxAttempts >= 1
C38_HoldsFromOneAttempt ==
  (call # Null /\ call[1].op = "withRetry" /\ call[1].maxAttempts >= 1) =>
    /\ call[1].returned.calls >= 1
    /\ ~call[1].returned.ok =>
         call[1].returned.error = call[1].outcomes[call[1].returned.calls]


(***************************************************************************)
(* Properties of the progress summary.                                     *)
(***************************************************************************)
\* C39: for the tracker of a run, from initialize on, getSummary().remaining
\* is the number of indices getRemainingChapters() returns and is not
\* negative, the percentage is within 0..100, and isComplete() is true
\* exactly when getRemainingChapters() is empty.
C39_SummaryAgreesWithRemaining ==
  (tracker # Null /\ tracker[1].checkpoint # Null) =>
    LET summary == getSummary(tracker[1])
    IN  /\ summary.remaining = Len(getRemainingChapters(tracker[1]))
        /\ summary.remaining >= 0
        /\ summary.percentage \in 0..100
        /\ isComplete(tracker[1]) <=> (getRemainingChapters(tracker[1]) = <<>>)

====
